---- MODULE Spec2Model ----
(***************************************************************************)
(* A model of the Plain translator (src/plain/enhanced_transpiler.py) and  *)
(* of its callers (src/plain/compiler.py, src/plain/repl.py).              *)
(*                                                                         *)
(* A document is a sequence of physical lines.  A physical line is its     *)
(* leading whitespace (a sequence of "sp" and "tab" characters) and its    *)
(* trimmed text.  The texts are a small vocabulary of Plain phrases, one   *)
(* for every shape of TranspileResult the per-line loop has to handle.     *)
(* Line indexes into `lines` are 0-based as in the source (lines[i] of the *)
(* source is lines[i + 1] here); generated line numbers are 1-based.       *)
(***************************************************************************)
EXTENDS Integers, Sequences, FiniteSets, TLC

VARIABLES
    doc,            \* plain_text, as its physical lines
    pc,             \* position inside transpile() and its caller
    lines,          \* List[SourceLine] produced by _tokenize_lines
    indent_unit,    \* result of _infer_indent_unit
    features,       \* result of _detect_features
    python_lines,   \* generated lines (indent, text) with the line that emitted them
    mapping,        \* List[Optional[SourceLine]], parallel to python_lines
    stack,          \* List[Block]
    endpoint_names, \* Set[str] of endpoint function names already used
    i,              \* loop index of transpile()
    line,           \* the loop's current SourceLine
    result,         \* the TranspileResult of the last dispatch
    popped,         \* the blocks the last pop loop closed, bottom first
    dispatches,     \* log of (index, consumed) of every dispatch so far
    last_mapping,   \* self.last_mapping
    outcome,        \* what the caller of translate got
    calls,          \* the execute() calls made on the Runtime so far, with their arguments
    caller,         \* position of the calling thread inside execute() ("idle" outside)
    globals,        \* self.globals: the identity of the namespace dict
    dicts,          \* the dict objects: identity -> the bindings the dict holds
    exec_globals,   \* per call: the identity of the dict passed to exec()
    exception,      \* per call: the `exception` cell shared by execute() and runner()
    runner,         \* per call: position of runner() and the thread it runs on
    sys_stdout,     \* sys.stdout: 0 is the process stream, c the stdout_capture of call c
    sys_stderr,     \* sys.stderr, likewise
    saved_targets,  \* per call: the streams redirect_stdout/redirect_stderr will restore
    stdout_capture, \* per call: what was written to stdout_capture
    stderr_capture, \* per call: what was written to stderr_capture
    process_out,    \* what reached the process's own stdout
    process_err,    \* what reached the process's own stderr
    locals_out,     \* the locals `stdout`, `stderr` of the running execute()
    returned,       \* per call: what execute() returned
    last_error,     \* self.last_error
    condition,      \* the argument of _parse_condition
    parsed_condition, \* its result
    expression,     \* the argument of _parse_expression, as words
    parsed_expression \* its result

transpilerVars == <<doc, pc, lines, indent_unit, features, python_lines, mapping, stack,
                    endpoint_names, i, line, result, popped, dispatches, last_mapping,
                    outcome>>

runtimeVars == <<calls, caller, globals, dicts, exec_globals, exception, runner,
                 sys_stdout, sys_stderr, saved_targets, stdout_capture, stderr_capture,
                 process_out, process_err, locals_out, returned, last_error>>

conditionVars == <<condition, parsed_condition, expression, parsed_expression>>

vars == <<transpilerVars, runtimeVars, conditionVars>>

(***************************************************************************)
(* Bounds of the model.                                                    *)
(***************************************************************************)
MaxLines == 4          \* physical lines of a document of NestedDocuments
MaxNestLevels == 3     \* deepest indentation of NestedDocuments, in steps
IndentStep == 2        \* columns per step in NestedDocuments
MaxPhysLines == 3      \* physical lines of a document of MixedDocuments
MaxUnitLines == 4      \* physical lines of a document of IndentedDocuments
MaxUnitIndent == 8     \* widest indentation of IndentedDocuments, in columns
MaxMethodLines == 3    \* physical lines of a document of MethodDocuments
MaxMethodLevels == 2   \* deepest indentation of MethodDocuments, in steps
MaxLoopLines == 3      \* physical lines of a document of LoopDocuments
MaxStatementLines == 2 \* physical lines of a document of StatementDocuments
MaxInlineLines == 2    \* physical lines of a document of InlineDocuments
MaxCalls == 2          \* execute() calls on one Runtime
MaxStatements == 1     \* statements of a generated program run under a timeout
MaxFailingStatements == 2  \* statements of a generated program of DiagnosticCalls
MaxRoundStatements == 2    \* statements of the text of one REPL round
MaxPhrases == 2         \* idiom phrases joined into one condition
MaxWords == 3           \* words of a phrase given to _parse_expression

(***************************************************************************)
(* Program constants.                                                      *)
(***************************************************************************)
TabSize == 4
DefaultIndentUnit == 4

(***************************************************************************)
(* The vocabulary of source texts.                                         *)
(***************************************************************************)
BlankText == ""
CommentText == "# note"
PrintText == "print x"
WhileDoText == "while x do"
IfThenText == "if x then print x"
StrLenText == "if the length of string a is longer than string b return a"
OtherwiseText == "otherwise b"
EndpointText == "create an api endpoint at /x that get and does"
ClassText == "create a class called Dog"
MethodText == "create a method called greet in class Dog that takes a and does"
AssertText == "assert x"
ReturnText == "return y"
StopText == "stop"
ExitText == "exit"
WaitText == "wait 5 seconds"
LogText == "log info x"
CallText == "print(x)"
AssignText == "x = 5"
ChainText == "x = y = 1"
IfBlockText == "if x then do"
ForEachText == "for each k in y do"

\* The statement phrases written after an inline header, and the three headers:
\* "if C then A", "while C do A", "for each x in L do A".
ActionPhrases == {PrintText, AssertText, ReturnText, StopText, ExitText, WaitText, LogText}

InlineKinds == {"if", "while", "for"}

InlinePrefix(kind) ==
    CASE kind = "if" -> "if x then"
      [] kind = "while" -> WhileDoText
      [] kind = "for" -> ForEachText

Inline(kind, action) == InlinePrefix(kind) \o " " \o action

InlineTexts(kind) == {Inline(kind, a) : a \in ActionPhrases}

\* The group of the header's pattern that holds the action ("" when the line
\* ends after the header).
InlineAction(kind, text) ==
    IF text \in InlineTexts(kind)
    THEN CHOOSE a \in ActionPhrases : text = Inline(kind, a)
    ELSE ""

\* ast.parse(text) succeeds, for the texts of the vocabulary.
IsValidStatement(text) ==
    text \in {AssertText, ReturnText, StopText, ExitText, CallText, AssignText, ChainText}

\* The words of a text given to _parse_expression.
WordsOf(text) ==
    CASE text = AssertText -> <<"assert", "x">>
      [] OTHER -> <<text>>

\* text.split('=', 1)[1].strip() of an assignment, as words.
AssignmentRight(text) ==
    CASE text = AssignText -> <<"5">>
      [] text = ChainText -> <<"y", "=", "1">>

\* The groups of the if_return pattern r'^if\s+(.+?)\s+return\s+(.+)$' on
\* "if x then return y".
IfReturnCondition == <<"x", "then">>
IfReturnValue == "y"

RECURSIVE Spaces(_)
Spaces(n) == IF n = 0 THEN <<>> ELSE <<"sp">> \o Spaces(n - 1)

RawLinesOf(leads, texts) == {[lead |-> w, text |-> t] : w \in leads, t \in texts}

DocumentsOf(maxLen, raws) == UNION {[1..n -> raws] : n \in 0..maxLen}

\* Documents that nest deeply: headers and statements at up to MaxNestLevels steps.
NestedDocuments ==
    DocumentsOf(MaxLines,
                RawLinesOf({Spaces(IndentStep * k) : k \in 0..MaxNestLevels},
                           {PrintText, WhileDoText}))

\* Documents over the whole vocabulary, with blank and comment lines and tabs.
MixedDocuments ==
    DocumentsOf(MaxPhysLines,
                RawLinesOf({<<>>}, {BlankText, CommentText})
                \cup RawLinesOf({<<>>, <<"sp", "sp">>, <<"tab">>},
                                {PrintText, WhileDoText, IfThenText, StrLenText,
                                 OtherwiseText, EndpointText}))

\* Documents of classes and method definitions, inside and outside the class.
MethodDocuments ==
    DocumentsOf(MaxMethodLines,
                RawLinesOf({Spaces(IndentStep * k) : k \in 0..MaxMethodLevels},
                           {ClassText, MethodText, WhileDoText, PrintText}))

\* Documents of one-line and two-line consumptions, with skipped blank lines.
LoopDocuments ==
    DocumentsOf(MaxLoopLines,
                RawLinesOf({<<>>}, {BlankText})
                \cup RawLinesOf({<<>>, <<"sp", "sp">>},
                                {PrintText, WhileDoText, StrLenText, OtherwiseText}))

\* Documents of statements that are target statements already, or that use a
\* module of the import catalogue.
StatementDocuments ==
    DocumentsOf(MaxStatementLines,
                RawLinesOf({<<>>, <<"sp", "sp">>},
                           {PrintText, CallText, AssignText, ChainText, AssertText,
                            StopText, ExitText, WaitText, LogText, WhileDoText}))

\* Documents of inline blocks and of the same statements under a block header.
InlineDocuments ==
    DocumentsOf(MaxInlineLines,
                RawLinesOf({<<>>, <<"sp", "sp">>},
                           {IfBlockText, WhileDoText, ForEachText,
                            PrintText, AssertText, ReturnText, StopText}
                           \cup {Inline(kind, a) : kind \in InlineKinds,
                                                    a \in {PrintText, AssertText,
                                                           ReturnText, StopText}}))

\* Documents of plain statements at every indentation up to MaxUnitIndent.
IndentedDocuments ==
    DocumentsOf(MaxUnitLines,
                RawLinesOf({Spaces(n) : n \in 0..MaxUnitIndent}, {PrintText}))

None == [content |-> "None", indent |-> 0, line_no |-> 0]
NoResult == [lines |-> <<>>, consumed |-> 0, opens_block |-> FALSE,
             block_type |-> "None", block_name |-> "None", block_params |-> "None"]

(***************************************************************************)
(* _count_indent: tabs expanded to the next multiple of TabSize.           *)
(***************************************************************************)
RECURSIVE ExpandedWidth(_, _)
ExpandedWidth(lead, col) ==
    IF lead = <<>> THEN col
    ELSE IF Head(lead) = "tab"
         THEN ExpandedWidth(Tail(lead), col + (TabSize - (col % TabSize)))
         ELSE ExpandedWidth(Tail(lead), col + 1)

CountIndent(raw) == ExpandedWidth(raw.lead, 0)

IsBlank(raw) == raw.text = BlankText
IsComment(raw) == raw.text \in {CommentText, "// note"}

(***************************************************************************)
(* _tokenize_lines: enumerate(plain_text.splitlines(), 1), dropping blank  *)
(* and comment lines.                                                      *)
(***************************************************************************)
RECURSIVE TokenizeFrom(_, _, _)
TokenizeFrom(d, pos, idx) ==
    IF pos > Len(d) THEN <<>>
    ELSE IF IsBlank(d[pos]) \/ IsComment(d[pos])
         THEN TokenizeFrom(d, pos + 1, idx + 1)
         ELSE <<[content |-> d[pos].text, indent |-> CountIndent(d[pos]), line_no |-> idx]>>
              \o TokenizeFrom(d, pos + 1, idx + 1)

TokenizeLinesFromZero(d) == TokenizeFrom(d, 1, 0)

TokenizeLines(d) == TokenizeFrom(d, 1, 1)

(***************************************************************************)
(* _infer_indent_unit.                                                     *)
(***************************************************************************)
SetMin(S) == CHOOSE m \in S : \A x \in S : m <= x

RECURSIVE SortedSeq(_)
SortedSeq(S) == IF S = {} THEN <<>> ELSE <<SetMin(S)>> \o SortedSeq(S \ {SetMin(S)})

UnitFromIndents(indents) ==
    IF indents = <<>> THEN DefaultIndentUnit
    ELSE IF Len(indents) = 1 THEN indents[1]
    ELSE LET diffs == {indents[k + 1] - indents[k] : k \in 1..(Len(indents) - 1)}
             positive == {x \in diffs : x > 0}
         IN IF positive # {} THEN SetMin(positive) ELSE indents[1]

InferIndentUnitWithZero(ls) ==
    UnitFromIndents(SortedSeq({ls[k].indent : k \in 1..Len(ls)}))

InferIndentUnit(ls) ==
    UnitFromIndents(SortedSeq({ls[k].indent : k \in {j \in 1..Len(ls) : ls[j].indent > 0}}))

(***************************************************************************)
(* _detect_features, _detect_libraries, _generate_imports.                 *)
(***************************************************************************)
MatchesApiEndpoint(text) == text = EndpointText
MentionsAppRun(text) == text \in {"app.run()", "__name__"}

DetectFeatures(ls) ==
    [flask_app |-> \E k \in 1..Len(ls) : MatchesApiEndpoint(ls[k].content),
     flask_run |-> ~(\E k \in 1..Len(ls) : MentionsAppRun(ls[k].content))]

\* re.search of a trigger pattern in the source text: the phrase alone or after
\* an inline header.
Mentions(text, phrase) ==
    text = phrase \/ \E kind \in InlineKinds : text = Inline(kind, phrase)

LibraryTriggers(text) ==
    (IF Mentions(text, WaitText) THEN {"time"} ELSE {})
    \cup (IF Mentions(text, ExitText) THEN {"sys"} ELSE {})
    \cup (IF Mentions(text, LogText) THEN {"logging"} ELSE {})

DetectLibraries(ls, feats) ==
    UNION {LibraryTriggers(ls[k].content) : k \in 1..Len(ls)}
    \cup (IF feats.flask_app THEN {"flask", "os"} ELSE {})

SortedLibraries == <<"flask", "logging", "os", "sys", "time">>

ImportLines(lib) ==
    IF lib = "flask"
    THEN <<"from flask import Flask, request, jsonify, render_template, send_file, send_from_directory">>
    ELSE IF lib = "logging" THEN <<"import logging">>
    ELSE IF lib = "os" THEN <<"import os">>
    ELSE IF lib = "sys" THEN <<"import sys">>
    ELSE <<"import time">>

RECURSIVE ImportsFrom(_, _)
ImportsFrom(k, libs) ==
    IF k > Len(SortedLibraries) THEN <<>>
    ELSE (IF SortedLibraries[k] \in libs THEN ImportLines(SortedLibraries[k]) ELSE <<>>)
         \o ImportsFrom(k + 1, libs)

GenerateImports(libs) == ImportsFrom(1, libs)

(***************************************************************************)
(* Generated lines.  A generated line is ' ' * indent + text; `origin` is  *)
(* the SourceLine whose dispatch emitted it, None for a synthetic line.    *)
(***************************************************************************)
Synthetic(ind, text) == [indent |-> ind, text |-> text, origin |-> None]

RepeatNone(n) == [k \in 1..n |-> None]

PreambleMappingShort(imports) == RepeatNone(Len(imports))

PreambleMapping(imports) == RepeatNone(Len(imports) + 1)

PreambleLines(imports) ==
    [k \in 1..Len(imports) |-> Synthetic(0, imports[k])] \o <<Synthetic(0, "")>>

FlaskBootstrap == <<Synthetic(0, "app = Flask(__name__, root_path=os.getcwd())"), Synthetic(0, "")>>

FlaskEntrypoint(unit) ==
    <<Synthetic(0, ""),
      Synthetic(0, "if __name__ == \"__main__\":"),
      Synthetic(unit, "app.run(debug=True, port=5000)")>>

MappingDictZeroBased(m) ==
    [n \in {idx : idx \in {j \in 0..(Len(m) - 1) : m[j + 1] # None}} |-> m[n + 1]]

MappingDict(m) ==
    [n \in {idx + 1 : idx \in {j \in 0..(Len(m) - 1) : m[j + 1] # None}} |-> m[n]]

(***************************************************************************)
(* _parse_condition and _parse_expression (enhanced_transpiler.py) on      *)
(* token sequences: a condition is its words, separated by single blanks,  *)
(* the result is the words of the generated text.  The words come from     *)
(* ConditionWords; the idioms written out here are those a text over these *)
(* words can match, in the order of the source.                            *)
(***************************************************************************)
PythonKeywords == {"is", "not", "in", "or", "and"}

\* Two words that are no expression wherever they stand: a"b holds a double
\* quote, a\b a backslash.
QuoteWord == "a\"b"
BackslashWord == "a\\b"

ConditionWords ==
    {"x", "y", "1", "5", "true", "empty", "contains", "has", "between",
     "greater", "less", "than", "equal", "to"} \cup PythonKeywords

\* re.match(r'^(.+?)\s+KW\s+(.+)$'): the places where KW stands with text on
\* both sides; the lazy first group takes the first of them.
Occurrences(s, kw) ==
    {k \in 2..Len(s) : k + Len(kw) <= Len(s) /\ SubSeq(s, k, k + Len(kw) - 1) = kw}

Before(s, k) == SubSeq(s, 1, k - 1)
After(s, k, kw) == SubSeq(s, k + Len(kw), Len(s))

\* re.match(r'^(.+?)\s+KW$')
EndsWith(s, kw) ==
    Len(s) > Len(kw) /\ SubSeq(s, Len(s) - Len(kw) + 1, Len(s)) = kw

\* re.split(r'\s+W\s+', s) at the places `at`, all of them inside the text.
RECURSIVE SplitAt(_, _)
SplitAt(s, at) ==
    IF at = {} THEN <<s>>
    ELSE LET k == SetMin(at)
         IN <<Before(s, k)>> \o SplitAt(SubSeq(s, k + 1, Len(s)), {j - k : j \in at \ {k}})

\* ast.parse(expr, mode='eval') succeeds: comparisons of names and numbers,
\* under not, and, or.
RECURSIVE IsComparisonFrom(_, _)
IsComparisonFrom(s, k) ==
    IF k > Len(s) THEN TRUE
    ELSE LET two == k + 1 <= Len(s) /\ <<s[k], s[k + 1]>> \in {<<"is", "not">>, <<"not", "in">>}
             one == s[k] \in {"is", "in"}
             operand == IF two THEN k + 2 ELSE k + 1
         IN /\ two \/ one
            /\ operand <= Len(s)
            /\ s[operand] \notin PythonKeywords
            /\ IsComparisonFrom(s, operand + 1)

IsComparison(s) == s # <<>> /\ s[1] \notin PythonKeywords /\ IsComparisonFrom(s, 2)

RECURSIVE IsNotTest(_)
IsNotTest(s) ==
    IF s # <<>> /\ s[1] = "not" THEN IsNotTest(Tail(s)) ELSE IsComparison(s)

SplitAtWord(s, w) == SplitAt(s, {k \in 1..Len(s) : s[k] = w})

IsValidPythonExpr(expr) ==
    /\ \A k \in 1..Len(expr) : expr[k] \notin {QuoteWord, BackslashWord}
    /\ \A k \in 1..Len(SplitAtWord(expr, "or")) :
          LET disjunct == SplitAtWord(expr, "or")[k]
          IN \A j \in 1..Len(SplitAtWord(disjunct, "and")) :
                 IsNotTest(SplitAtWord(disjunct, "and")[j])

\* value.replace('\\', '\\\\').replace('"', '\\"'), word by word.
Escaped(word) ==
    IF word = BackslashWord THEN "a\\\\b"
    ELSE IF word = QuoteWord THEN "a\\\"b"
    ELSE word

QuoteString(value) ==
    <<"\"">> \o [k \in 1..Len(value) |-> Escaped(value[k])] \o <<"\"">>

\* re.match(r'^[A-Za-z_]\w*$', word), for the words of the model.
IsIdentifier(word) == word \notin {"1", "5", QuoteWord, BackslashWord}

RECURSIVE ParseExpression(_)
ParseExpression(expr) ==
    IF expr = <<>> THEN expr
    ELSE IF expr = <<"true">> THEN <<"True">>
    ELSE IF Len(expr) >= 2 /\ expr[1] = "not" THEN <<"not">> \o ParseExpression(Tail(expr))
    ELSE IF Occurrences(expr, <<"contains">>) # {}
    THEN LET k == SetMin(Occurrences(expr, <<"contains">>))
         IN ParseExpression(After(expr, k, <<"contains">>)) \o <<"in">>
                \o ParseExpression(Before(expr, k))
    ELSE IF EndsWith(expr, <<"is", "not", "empty">>)
    THEN <<"len(">> \o ParseExpression(SubSeq(expr, 1, Len(expr) - 3)) \o <<")", "!=", "0">>
    ELSE IF EndsWith(expr, <<"is", "empty">>)
    THEN <<"len(">> \o ParseExpression(SubSeq(expr, 1, Len(expr) - 2)) \o <<")", "==", "0">>
    ELSE IF IsValidPythonExpr(expr) THEN expr
    ELSE IF Len(expr) = 1 /\ IsIdentifier(expr[1]) THEN expr
    ELSE QuoteString(expr)

\* re.sub(r'(\bbetween\b[^\n]+?)\s+and\s+', ...): the "and" words that become
\* __between_and__, found from position `from` on.
RECURSIVE BetweenAnds(_, _)
BetweenAnds(s, from) ==
    LET ands(b) == {j \in (b + 2)..(Len(s) - 1) : s[j] = "and"}
        betweens == {b \in from..Len(s) : s[b] = "between" /\ ands(b) # {}}
    IN IF betweens = {} THEN {}
       ELSE LET a == SetMin(ands(SetMin(betweens)))
            IN {a} \cup BetweenAnds(s, a + 1)

\* ' or '.join(f"({part})" for part in parsed)
RECURSIVE JoinParenthesized(_, _)
JoinParenthesized(parsed, word) ==
    IF parsed = <<>> THEN <<>>
    ELSE <<"(">> \o Head(parsed) \o <<")">>
         \o (IF Len(parsed) = 1 THEN <<>> ELSE <<word>> \o JoinParenthesized(Tail(parsed), word))

\* The two-sided idioms after the "and" split, in the order of the source: the
\* words between the two groups and the operator of the result.
ComparisonIdioms ==
    << [words |-> <<"is", "greater", "than", "or", "equal", "to">>, op |-> ">="],
       [words |-> <<"is", "less", "than", "or", "equal", "to">>, op |-> "<="],
       [words |-> <<"is", "not", "equal", "to">>, op |-> "!="],
       [words |-> <<"is", "equal", "to">>, op |-> "=="],
       [words |-> <<"is", "greater", "than">>, op |-> ">"],
       [words |-> <<"is", "less", "than">>, op |-> "<"],
       [words |-> <<"is", "not">>, op |-> "!="],
       [words |-> <<"is">>, op |-> "=="] >>

RECURSIVE ParseComparison(_, _)
ParseComparison(c, n) ==
    IF n > Len(ComparisonIdioms) THEN c
    ELSE LET idiom == ComparisonIdioms[n]
             at == Occurrences(c, idiom.words)
         IN IF at = {} THEN ParseComparison(c, n + 1)
            ELSE ParseExpression(Before(c, SetMin(at))) \o <<idiom.op>>
                     \o ParseExpression(After(c, SetMin(at), idiom.words))

RECURSIVE ParseCondition(_)
ParseCondition(c) ==
    LET ors == {k \in 2..(Len(c) - 1) : c[k] = "or"}
        ands == {k \in 2..(Len(c) - 1) : c[k] = "and"} \ BetweenAnds(c, 1)
        parts(at) == SplitAt(c, at)
        parsed(at) == [k \in 1..Len(parts(at)) |-> ParseCondition(parts(at)[k])]
        infix(kw, left_first, op) ==
            LET k == SetMin(Occurrences(c, kw))
                left == ParseExpression(Before(c, k))
                right == ParseExpression(After(c, k, kw))
            IN IF left_first THEN left \o op \o right ELSE right \o op \o left
        ranges == {p \in (2..Len(c)) \X (2..Len(c)) :
                      /\ p[1] + 1 <= Len(c)
                      /\ <<c[p[1]], c[p[1] + 1]>> = <<"is", "between">>
                      /\ p[2] >= p[1] + 3
                      /\ p[2] < Len(c)
                      /\ c[p[2]] = "and"}
    IN IF c = <<>> THEN c
       ELSE IF Len(c) >= 2 /\ c[1] = "not"
       THEN <<"not", "(">> \o ParseCondition(Tail(c)) \o <<")">>
       ELSE IF EndsWith(c, <<"is", "not", "empty">>)
       THEN <<"len(">> \o ParseExpression(SubSeq(c, 1, Len(c) - 3)) \o <<")", "!=", "0">>
       ELSE IF EndsWith(c, <<"is", "empty">>)
       THEN <<"len(">> \o ParseExpression(SubSeq(c, 1, Len(c) - 2)) \o <<")", "==", "0">>
       ELSE IF Occurrences(c, <<"contains">>) # {}
       THEN infix(<<"contains">>, FALSE, <<"in">>)
       ELSE IF Occurrences(c, <<"is", "not", "in">>) # {}
       THEN infix(<<"is", "not", "in">>, TRUE, <<"not", "in">>)
       ELSE IF Occurrences(c, <<"is", "in">>) # {}
       THEN infix(<<"is", "in">>, TRUE, <<"in">>)
       ELSE IF Occurrences(c, <<"has">>) # {}
       THEN infix(<<"has">>, FALSE, <<"in">>)
       ELSE IF ors # {} THEN JoinParenthesized(parsed(ors), "or")
       ELSE IF ands # {} THEN JoinParenthesized(parsed(ands), "and")
       ELSE IF ranges # {}
       THEN LET at_is == SetMin({p[1] : p \in ranges})
                at_and == SetMin({p[2] : p \in {q \in ranges : q[1] = at_is}})
            IN ParseExpression(SubSeq(c, at_is + 2, at_and - 1)) \o <<"<=">>
                   \o ParseExpression(Before(c, at_is)) \o <<"<=">>
                   \o ParseExpression(SubSeq(c, at_and + 1, Len(c)))
       ELSE ParseComparison(c, 1)

(***************************************************************************)
(* The dispatcher: _transpile_line and the renderers it calls.             *)
(***************************************************************************)
OutputLine(off, text) == [indent_offset |-> off, text |-> text]

TranspileResult(ls, consumed, opens, btype, bname, bparams) ==
    [lines |-> ls, consumed |-> consumed, opens_block |-> opens,
     block_type |-> btype, block_name |-> bname, block_params |-> bparams]

Block(ind, btype, bname, bparams) ==
    [indent |-> ind, block_type |-> btype, name |-> bname, params |-> bparams]

\* The first pattern of _transpile_line, in its order, that matches the text.
MatchedPattern(text) ==
    CASE text = StrLenText -> "string_length_comparison"
      [] text = EndpointText -> "api_endpoint_block"
      [] text = OtherwiseText -> "else_inline"
      [] text = IfBlockText -> "if_then_do_block"
      [] text = Inline("if", ReturnText) -> "if_return"
      [] text \in InlineTexts("if") \ {Inline("if", ReturnText)} -> "if_then_inline"
      [] text \in {ForEachText} \cup InlineTexts("for") -> "for_each"
      [] text = WaitText -> "wait_sleep"
      [] text \in {WhileDoText} \cup InlineTexts("while") -> "while_do"
      [] text = ClassText -> "create_class"
      [] text = MethodText -> "instance_method"
      [] text = LogText -> "log_message"
      [] text = PrintText -> "print"
      [] text = ReturnText -> "return"
      [] text \in {StopText, ExitText} -> "exit"
      [] text \in {AssignText, ChainText} -> "assignment"
      [] OTHER -> "fallback"

ElseInlineMatches(text) == text = OtherwiseText

ShouldAutopass(all_lines, index, current_indent) ==
    IF index + 1 >= Len(all_lines) THEN TRUE
    ELSE all_lines[index + 2].indent <= current_indent

RenderBlockHeaderAlwaysOpens(header, all_lines, index, current_indent, block_type, block_name, block_params) ==
    TranspileResult(<<OutputLine(0, header)>>, 1, TRUE, block_type, block_name, block_params)

RenderBlockHeader(header, all_lines, index, current_indent, block_type, block_name, block_params) ==
    IF ShouldAutopass(all_lines, index, current_indent)
    THEN TranspileResult(<<OutputLine(0, header), OutputLine(1, "pass")>>, 1, FALSE,
                         "None", "None", block_params)
    ELSE TranspileResult(<<OutputLine(0, header)>>, 1, TRUE,
                         block_type, block_name, block_params)

\* ' '.join of the words of a parsed expression; the quotes of _quote_string
\* stand against the text they enclose.
RECURSIVE JoinText(_)
JoinText(words) ==
    IF words = <<>> THEN ""
    ELSE IF Len(words) = 1 THEN words[1]
    ELSE words[1] \o " " \o JoinText(Tail(words))

ExpressionText(parsed) ==
    IF Len(parsed) >= 2 /\ parsed[1] = "\"" /\ parsed[Len(parsed)] = "\""
    THEN "\"" \o JoinText(SubSeq(parsed, 2, Len(parsed) - 1)) \o "\""
    ELSE JoinText(parsed)

\* _parse_inline_action on the action phrases of the vocabulary.
ParseInlineAction(action_text) ==
    CASE action_text = "" -> <<>>
      [] action_text = WaitText -> <<OutputLine(0, "time.sleep(5)")>>
      [] action_text = LogText -> <<OutputLine(0, "logging.info(x)")>>
      [] action_text = PrintText -> <<OutputLine(0, "print(x)")>>
      [] action_text = ReturnText -> <<OutputLine(0, "return y")>>
      [] action_text \in {StopText, ExitText} -> <<OutputLine(0, "sys.exit(0)")>>
      [] OTHER -> <<OutputLine(0, ExpressionText(ParseExpression(WordsOf(action_text))))>>

RenderInlineBlock(header, action_text) ==
    LET parsed == ParseInlineAction(action_text)
        action_lines == IF parsed = <<>> THEN <<OutputLine(0, "pass")>> ELSE parsed
    IN TranspileResult(
           <<OutputLine(0, header)>>
           \o [k \in 1..Len(action_lines) |->
                 OutputLine(1 + action_lines[k].indent_offset, action_lines[k].text)],
           1, FALSE, "None", "None", "None")

\* _make_endpoint_name for method "get" and path "/x": get_x, get_x_2, get_x_3, ...
EndpointNameSeq == <<"get_x", "get_x_2", "get_x_3", "get_x_4", "get_x_5", "get_x_6">>
EndpointHeaderSeq == <<"def get_x():", "def get_x_2():", "def get_x_3():",
                       "def get_x_4():", "def get_x_5():", "def get_x_6():">>

NameIndex(used_names) ==
    CHOOSE k \in 1..Len(EndpointNameSeq) :
        /\ EndpointNameSeq[k] \notin used_names
        /\ \A j \in 1..(k - 1) : EndpointNameSeq[j] \in used_names

MakeEndpointName(used_names) == EndpointNameSeq[NameIndex(used_names)]

RenderApiEndpoint(all_lines, index, current_indent, used_names) ==
    LET ls == <<OutputLine(0, "@app.route(\"/x\", methods=[\"GET\"])"),
                OutputLine(0, EndpointHeaderSeq[NameIndex(used_names)])>>
    IN IF ShouldAutopass(all_lines, index, current_indent)
       THEN TranspileResult(Append(ls, OutputLine(1, "return \"\"")), 1, FALSE,
                            "None", "None", "None")
       ELSE TranspileResult(ls, 1, TRUE, "def", "None", "None")

RECURSIVE CurrentClass(_)
CurrentClass(stk) ==
    IF stk = <<>> THEN "None"
    ELSE IF stk[Len(stk)].block_type = "class" THEN stk[Len(stk)].name
    ELSE CurrentClass(SubSeq(stk, 1, Len(stk) - 1))

\* _render_class_method for an instance method "greet" of class_name with
\* parameter a and an empty inline body.
RenderClassMethod(class_name, current_class, all_lines, index, current_indent) ==
    LET inside_target_class == current_class # "None" /\ class_name = current_class
    IN IF inside_target_class
       THEN IF ShouldAutopass(all_lines, index, current_indent)
            THEN TranspileResult(<<OutputLine(0, "def greet(self, a):"), OutputLine(1, "pass")>>,
                                 1, FALSE, "None", "None", "None")
            ELSE TranspileResult(<<OutputLine(0, "def greet(self, a):")>>,
                                 1, TRUE, "def", "None", "a")
       ELSE TranspileResult(<<OutputLine(0, "def _Dog_greet(self, a):"),
                              OutputLine(1, "pass"),
                              OutputLine(0, "Dog.greet = _Dog_greet")>>,
                            1, FALSE, "None", "None", "None")

StringLengthComparisonAlwaysTwo(all_lines, index) ==
    TranspileResult(
        <<OutputLine(0, "def program(a, b):"),
          OutputLine(1, "if len(a) > len(b):"),
          OutputLine(2, "return a"),
          OutputLine(1, "else:"),
          OutputLine(2, "return b")>>,
        2, FALSE, "None", "None", "None")

StringLengthComparison(all_lines, index) ==
    LET absorbs == /\ index + 1 < Len(all_lines)
                   /\ ElseInlineMatches(all_lines[index + 2].content)
        head == <<OutputLine(0, "def program(a, b):"),
                  OutputLine(1, "if len(a) > len(b):"),
                  OutputLine(2, "return a")>>
    IN IF absorbs
       THEN TranspileResult(head \o <<OutputLine(1, "else:"), OutputLine(2, "return b")>>,
                            2, FALSE, "None", "None", "None")
       ELSE TranspileResult(head, 1, FALSE, "None", "None", "None")

TranspileLine(ln, all_lines, index, unit, stk, used_names) ==
    LET p == MatchedPattern(ln.content)
    IN CASE p = "string_length_comparison" -> StringLengthComparison(all_lines, index)
         [] p = "api_endpoint_block" -> RenderApiEndpoint(all_lines, index, ln.indent, used_names)
         [] p = "else_inline" -> RenderInlineBlock("else:", "b")
         [] p = "if_then_do_block" ->
                RenderBlockHeader("if x:", all_lines, index, ln.indent, "None", "None", "None")
         [] p = "if_return" ->
                RenderInlineBlock("if " \o ExpressionText(ParseCondition(IfReturnCondition)) \o ":",
                                  "return " \o IfReturnValue)
         [] p = "if_then_inline" -> RenderInlineBlock("if x:", InlineAction("if", ln.content))
         [] p = "for_each" ->
                IF InlineAction("for", ln.content) # ""
                THEN RenderInlineBlock("for k in y:", InlineAction("for", ln.content))
                ELSE RenderBlockHeader("for k in y:", all_lines, index, ln.indent,
                                       "None", "None", "None")
         [] p = "wait_sleep" -> TranspileResult(<<OutputLine(0, "time.sleep(5)")>>, 1, FALSE,
                                                "None", "None", "None")
         [] p = "while_do" ->
                IF InlineAction("while", ln.content) # ""
                THEN RenderInlineBlock("while x:", InlineAction("while", ln.content))
                ELSE RenderBlockHeader("while x:", all_lines, index, ln.indent,
                                       "None", "None", "None")
         [] p = "create_class" ->
                RenderBlockHeader("class Dog:", all_lines, index, ln.indent, "class", "Dog", "None")
         [] p = "instance_method" ->
                RenderClassMethod("Dog", CurrentClass(stk), all_lines, index, ln.indent)
         [] p = "print" -> TranspileResult(<<OutputLine(0, "print(x)")>>, 1, FALSE,
                                           "None", "None", "None")
         [] p = "log_message" -> TranspileResult(<<OutputLine(0, "logging.info(x)")>>, 1, FALSE,
                                                 "None", "None", "None")
         [] p = "return" -> TranspileResult(<<OutputLine(0, "return y")>>, 1, FALSE,
                                            "None", "None", "None")
         [] p = "exit" -> TranspileResult(<<OutputLine(0, "sys.exit(0)")>>, 1, FALSE,
                                          "None", "None", "None")
         [] p = "assignment" ->
                TranspileResult(
                    <<OutputLine(0, "x = " \o ExpressionText(ParseExpression(
                                                  AssignmentRight(ln.content))))>>,
                    1, FALSE, "None", "None", "None")
         [] OTHER ->
                TranspileResult(
                    <<OutputLine(0, IF IsValidStatement(ln.content) THEN ln.content
                                    ELSE ExpressionText(ParseExpression(WordsOf(ln.content))))>>,
                    1, FALSE, "None", "None", "None")

(***************************************************************************)
(* The pop loop of transpile(): while stack and line.indent <=             *)
(* stack[-1].indent: stack.pop().                                          *)
(***************************************************************************)
RECURSIVE PopBlocksStrict(_, _)
PopBlocksStrict(stk, ind) ==
    IF stk # <<>> /\ ind < stk[Len(stk)].indent
    THEN PopBlocksStrict(SubSeq(stk, 1, Len(stk) - 1), ind)
    ELSE stk

PopBlocksOnce(stk, ind) ==
    IF stk # <<>> /\ ind <= stk[Len(stk)].indent
    THEN SubSeq(stk, 1, Len(stk) - 1)
    ELSE stk

RECURSIVE PopBlocks(_, _)
PopBlocks(stk, ind) ==
    IF stk # <<>> /\ ind <= stk[Len(stk)].indent
    THEN PopBlocks(SubSeq(stk, 1, Len(stk) - 1), ind)
    ELSE stk

EmittedLines(res, ln, unit) ==
    [k \in 1..Len(res.lines) |->
        [indent |-> ln.indent + res.lines[k].indent_offset * unit,
         text |-> res.lines[k].text,
         origin |-> ln]]

(***************************************************************************)
(* The trial parse (ast.parse) of the generated text, for the generated    *)
(* vocabulary: Python's indentation rules, and an else clause only after   *)
(* a compound statement that takes one.                                    *)
(***************************************************************************)
EndpointHeaders == {EndpointHeaderSeq[k] : k \in 1..Len(EndpointHeaderSeq)}
HeaderTexts == {"while x:", "if x:", "for k in y:", "else:", "def program(a, b):", "if len(a) > len(b):",
                "if __name__ == \"__main__\":", "class Dog:", "def greet(self, a):",
                "def _Dog_greet(self, a):"} \cup EndpointHeaders
TakesElse == {"while x:", "if x:", "for k in y:", "if len(a) > len(b):", "if __name__ == \"__main__\":"}

IsBlockHeader(text) == text \in HeaderTexts
IsDecorator(text) == text = "@app.route(\"/x\", methods=[\"GET\"])"

\* Generated lines that are no statement at all.
IsSyntaxError(text) == text = "if x then:"

NonBlank(pls) == SelectSeq(pls, LAMBDA l : l.text # "")

\* levels: the open indentation levels, each with the statement last seen at it.
RECURSIVE ParsesFrom(_, _, _)
ParsesFrom(s, k, levels) ==
    IF k > Len(s)
    THEN k = 1 \/ (~IsBlockHeader(s[k - 1].text) /\ ~IsDecorator(s[k - 1].text))
    ELSE LET cur == s[k]
             afterHeader == k > 1 /\ IsBlockHeader(s[k - 1].text)
             top == levels[Len(levels)]
             opened == IF afterHeader /\ cur.indent > top.indent
                       THEN Append(levels, [indent |-> cur.indent, prev |-> ""])
                       ELSE levels
             depth == {d \in 1..Len(opened) : opened[d].indent = cur.indent}
         IN /\ ~IsSyntaxError(cur.text)
            /\ afterHeader => cur.indent > top.indent
            /\ ~afterHeader => cur.indent <= top.indent
            /\ depth # {}
            /\ LET d == CHOOSE x \in depth : TRUE
                   at == opened[d]
               IN /\ cur.text = "else:" => at.prev \in TakesElse
                  /\ (k > 1 /\ IsDecorator(s[k - 1].text)) =>
                        (cur.indent = s[k - 1].indent /\ cur.text \in EndpointHeaders)
                  /\ ParsesFrom(s, k + 1,
                                Append(SubSeq(opened, 1, d - 1),
                                       [indent |-> cur.indent, prev |-> cur.text]))

TrialParse(pls) == ParsesFrom(NonBlank(pls), 1, <<[indent |-> 0, prev |-> ""]>>)

(***************************************************************************)
(* The runtime (src/plain/runtime.py): generated programs, exceptions and   *)
(* the diagnostic of _format_exception.                                    *)
(*                                                                         *)
(* A generated program is an optional two-line preamble ("import sys" and  *)
(* a blank line, both synthetic) followed by one generated line per        *)
(* statement; `valid` tells whether compile() accepts the text.  A          *)
(* statement is what the line does when exec() runs it.                    *)
(***************************************************************************)
PreambleLength == 2
RunnerExecLine == 140          \* runner(): exec(code_obj, exec_globals) under capture
RunnerExecLineUncaptured == 142
CompileLine == 128             \* execute(): code_obj = compile(...)
BlockedImportLine == 50        \* _blocked_import(): raise ImportError(...)

RuntimeFile == "runtime.py"
ReplFile == "<repl>"

\* "define" binds a function f whose body is `global sys; import sys; raise
\* ValueError(...)`, "call" calls f.
Statements == {"bind", "write_out", "write_err", "raise", "exit", "define", "call"}

Program(preamble, stmts, valid) == [preamble |-> preamble, stmts |-> stmts, valid |-> valid]

ProgramsOf(maxLen, stmts, preambles, valids) ==
    {Program(pre, st, v) : pre \in preambles, v \in valids,
                           st \in UNION {[1..n -> stmts] : n \in 0..maxLen}}

Offset(prog) == IF prog.preamble THEN PreambleLength ELSE 0

\* The generated line of statement k, and the number of generated lines.
LineOf(prog, k) == Offset(prog) + k
CodeLength(prog) == Offset(prog) + Len(prog.stmts)

\* transpile()'s mapping_dict for the program: every statement line maps to the
\* SourceLine that produced it; preamble lines have no entry.
LineMappingOf(prog) ==
    [n \in {LineOf(prog, k) : k \in 1..Len(prog.stmts)} |->
        [content |-> prog.stmts[n - Offset(prog)], indent |-> 0, line_no |-> n - Offset(prog)]]

NoMapping == <<>>

\* A traceback frame as extract_tb gives it; `round` is history: the call
\* whose text the frame's line belongs to (0: the text of the running call).
Frame(filename, lineno) == [filename |-> filename, lineno |-> lineno, round |-> 0]

\* The frame of a function body that call `by` defined at its line lineno.
FunctionFrame(filename, lineno, by) == [filename |-> filename, lineno |-> lineno, round |-> by]

\* An exception object: its type, its __traceback__ as extract_tb lists it
\* (outermost frame first) and, for a SyntaxError, the line it points at.
Raised(kind, frames, lineno) == [kind |-> kind, frames |-> frames, lineno |-> lineno]

NoException == Raised("None", <<>>, 0)

\* TimeoutError(...) is constructed, never raised: it has no __traceback__.
TimeoutFailure == Raised("TimeoutError", <<>>, 0)

\* compile() failing inside execute(): the traceback holds execute()'s own frame.
CompileFailure(filename, prog) ==
    Raised("SyntaxError", <<Frame(RuntimeFile, CompileLine)>>, CodeLength(prog))

RunnerFrame(capture_output) ==
    Frame(RuntimeFile, IF capture_output THEN RunnerExecLine ELSE RunnerExecLineUncaptured)

\* An exception raised by the generated line n itself.
RaisedAtLine(kind, filename, n, capture_output) ==
    Raised(kind, <<RunnerFrame(capture_output), Frame(filename, n)>>, 0)

\* The ImportError of _blocked_import, called from the generated line n.
BlockedImport(filename, n, capture_output) ==
    Raised("ImportError",
           <<RunnerFrame(capture_output), Frame(filename, n),
             Frame(RuntimeFile, BlockedImportLine)>>, 0)

SetMax(S) == CHOOSE x \in S : \A y \in S : y <= x

\* _format_exception: the frame it reports (lineno 0 when there is none).
TargetFrame(exc, filename) ==
    LET frames == exc.frames
        own == {k \in 1..Len(frames) : frames[k].filename = filename}
    IN IF own # {} THEN frames[SetMax(own)]
       ELSE IF frames # <<>> THEN frames[Len(frames)]
       ELSE Frame("None", 0)

DiagLine(tag, file, lineno, indent, text) ==
    [tag |-> tag, file |-> file, lineno |-> lineno, indent |-> indent, text |-> text]

\* _format_exception: the lines of the diagnostic, before "\n".join.
FormatException(exc, filename, line_mapping, source_lines) ==
    LET target == TargetFrame(exc, filename)
        py_line == target.lineno
        mapped == line_mapping # <<>> /\ py_line \in DOMAIN line_mapping
        from_source == /\ ~mapped
                       /\ line_mapping = <<>>
                       /\ source_lines # <<>>
                       /\ py_line >= 1
                       /\ py_line <= Len(source_lines)
        location == IF filename = "" THEN "<string>" ELSE filename
        head == IF mapped
                THEN DiagLine("origin", location, line_mapping[py_line].line_no, 0, "")
                ELSE IF from_source THEN DiagLine("origin", location, py_line, 0, "")
                ELSE IF target.filename # "None"
                     THEN DiagLine("python line", location, py_line, 0, "")
                     ELSE DiagLine("location", location, 0, 0, "")
        plain == IF mapped
                 THEN <<DiagLine("Plain", "", 0, line_mapping[py_line].indent,
                                 line_mapping[py_line].content)>>
                 ELSE IF from_source /\ source_lines[py_line] # ""
                      THEN <<DiagLine("Plain", "", 0, 0, source_lines[py_line])>>
                      ELSE <<>>
    IN <<head>> \o plain \o <<DiagLine("failure", "", 0, 0, exc.kind)>>

CallIds == 1..MaxCalls

\* Dict identities: 1 is the dict of __init__, 2c the copy _get_exec_globals
\* makes for call c, 2c + 1 the dict a reset() during or after call c makes.
DictIds == 1..(2 * MaxCalls + 1)

Binding(name, by) == [name |-> name, by |-> by, line |-> 0]

\* The function f, defined by call `by` at its generated line lineno.
FunctionBinding(by, lineno) == [name |-> "f", by |-> by, line |-> lineno]
Written(by, diagnostic) == [by |-> by, diagnostic |-> diagnostic]

RunnerAt(at, ip, thread, pending) ==
    [at |-> at, ip |-> ip, thread |-> thread, pending |-> pending]

NotReturned == [done |-> FALSE, stdout |-> <<>>, stderr |-> <<>>, exception |-> NoException]

\* The state after Runtime.__init__().
RuntimeIdle ==
    /\ calls = <<>>
    /\ caller = "idle"
    /\ globals = 1
    /\ dicts = [d \in DictIds |-> {}]
    /\ exec_globals = [c \in CallIds |-> 0]
    /\ exception = [c \in CallIds |-> NoException]
    /\ runner = [c \in CallIds |-> RunnerAt("unstarted", 0, "none", NoException)]
    /\ sys_stdout = 0
    /\ sys_stderr = 0
    /\ saved_targets = [c \in CallIds |-> [out |-> 0, err |-> 0]]
    /\ stdout_capture = [c \in CallIds |-> <<>>]
    /\ stderr_capture = [c \in CallIds |-> <<>>]
    /\ process_out = <<>>
    /\ process_err = <<>>
    /\ locals_out = [stdout |-> <<>>, stderr |-> <<>>]
    /\ returned = [c \in CallIds |-> NotReturned]
    /\ last_error = <<>>

\* _parse_condition has not been called.
NoCondition == [text |-> <<>>, phrases |-> <<>>, word |-> ""]

ConditionIdle ==
    /\ condition = NoCondition
    /\ parsed_condition = <<>>
    /\ expression = <<>>
    /\ parsed_expression = <<>>

(***************************************************************************)
(* Initial state and the steps of translate() and of its callers.          *)
(***************************************************************************)
StartState(d) ==
    /\ doc = d
    /\ pc = "start"
    /\ lines = <<>>
    /\ indent_unit = 0
    /\ features = [flask_app |-> FALSE, flask_run |-> TRUE]
    /\ python_lines = <<>>
    /\ mapping = <<>>
    /\ stack = <<>>
    /\ endpoint_names = {}
    /\ i = 0
    /\ line = None
    /\ result = NoResult
    /\ popped = <<>>
    /\ dispatches = <<>>
    /\ last_mapping = <<>>
    /\ outcome = "pending"

Init == (\E d \in NestedDocuments : StartState(d)) /\ RuntimeIdle /\ ConditionIdle

InitMixed == (\E d \in MixedDocuments : StartState(d)) /\ RuntimeIdle /\ ConditionIdle

InitIndented == (\E d \in IndentedDocuments : StartState(d)) /\ RuntimeIdle /\ ConditionIdle

InitStatements == (\E d \in StatementDocuments : StartState(d)) /\ RuntimeIdle /\ ConditionIdle

InitInline == (\E d \in InlineDocuments : StartState(d)) /\ RuntimeIdle /\ ConditionIdle

InitMethods == (\E d \in MethodDocuments : StartState(d)) /\ RuntimeIdle /\ ConditionIdle

InitLoop == (\E d \in LoopDocuments : StartState(d)) /\ RuntimeIdle /\ ConditionIdle

\* transpile(): `if not plain_text.strip()` and `if not lines`: raise ValueError.
RejectEmpty ==
    /\ UNCHANGED <<runtimeVars, conditionVars>>
    /\ pc = "start"
    /\ TokenizeLines(doc) = <<>>
    /\ pc' = "done"
    /\ outcome' = "EmptyInput"
    /\ last_mapping' = IF \A k \in 1..Len(doc) : IsBlank(doc[k]) THEN last_mapping ELSE <<>>
    /\ UNCHANGED <<doc, lines, indent_unit, features, python_lines, mapping, stack,
                   endpoint_names, i, line, result, popped, dispatches>>

\* transpile() up to the per-line loop.
BeginTranslate ==
    /\ UNCHANGED <<runtimeVars, conditionVars>>
    /\ pc = "start"
    /\ TokenizeLines(doc) # <<>>
    /\ lines' = TokenizeLines(doc)
    /\ indent_unit' = InferIndentUnit(lines')
    /\ features' = DetectFeatures(lines')
    /\ LET imports == GenerateImports(DetectLibraries(lines', features'))
       IN /\ python_lines' = (IF imports # <<>> THEN PreambleLines(imports) ELSE <<>>)
                             \o (IF features'.flask_app THEN FlaskBootstrap ELSE <<>>)
          /\ mapping' = (IF imports # <<>> THEN PreambleMapping(imports) ELSE <<>>)
                        \o (IF features'.flask_app THEN RepeatNone(2) ELSE <<>>)
    /\ stack' = <<>>
    /\ endpoint_names' = {}
    /\ i' = 0
    /\ last_mapping' = <<>>
    /\ pc' = "pop"
    /\ UNCHANGED <<doc, line, result, popped, dispatches, outcome>>

\* line = lines[i]; while stack and line.indent <= stack[-1].indent: stack.pop()
CloseBlocks ==
    /\ UNCHANGED <<runtimeVars, conditionVars>>
    /\ pc = "pop"
    /\ i < Len(lines)
    /\ line' = lines[i + 1]
    /\ stack' = PopBlocks(stack, lines[i + 1].indent)
    /\ popped' = SubSeq(stack, Len(stack') + 1, Len(stack))
    /\ pc' = "dispatch"
    /\ UNCHANGED <<doc, lines, indent_unit, features, python_lines, mapping,
                   endpoint_names, i, result, dispatches, last_mapping, outcome>>

\* result = _transpile_line(...); append its lines; push; i += result.consumed
Dispatch ==
    /\ UNCHANGED <<runtimeVars, conditionVars>>
    /\ pc = "dispatch"
    /\ result' = TranspileLine(line, lines, i, indent_unit, stack, endpoint_names)
    /\ endpoint_names' = IF MatchedPattern(line.content) = "api_endpoint_block"
                         THEN endpoint_names \cup {MakeEndpointName(endpoint_names)}
                         ELSE endpoint_names
    /\ python_lines' = python_lines \o EmittedLines(result', line, indent_unit)
    /\ mapping' = mapping \o [k \in 1..Len(result'.lines) |-> line]
    /\ stack' = IF result'.opens_block
                THEN Append(stack, Block(line.indent,
                                         IF result'.block_type = "None" THEN "block"
                                         ELSE result'.block_type,
                                         result'.block_name, result'.block_params))
                ELSE stack
    /\ dispatches' = Append(dispatches, [index |-> i, consumed |-> result'.consumed])
    /\ i' = i + result'.consumed
    /\ pc' = IF i' < Len(lines) THEN "pop" ELSE "assemble"
    /\ UNCHANGED <<doc, lines, indent_unit, features, line, popped, last_mapping, outcome>>

\* transpile() after the loop: entrypoint block, mapping_dict, return.
FinishTranslate ==
    /\ UNCHANGED <<runtimeVars, conditionVars>>
    /\ pc = "assemble"
    /\ python_lines' = python_lines
                       \o (IF features.flask_app /\ features.flask_run
                           THEN FlaskEntrypoint(indent_unit) ELSE <<>>)
    /\ mapping' = mapping
                  \o (IF features.flask_app /\ features.flask_run
                      THEN RepeatNone(3) ELSE <<>>)
    /\ last_mapping' = MappingDict(mapping')
    /\ pc' = "returned"
    /\ UNCHANGED <<doc, lines, indent_unit, features, stack, endpoint_names, i, line,
                   result, popped, dispatches, outcome>>

\* REPL._execute_plain_text: the text goes to the runtime as returned.
ReplReceives ==
    /\ UNCHANGED <<runtimeVars, conditionVars>>
    /\ pc = "returned"
    /\ pc' = "done"
    /\ outcome' = "ReplText"
    /\ UNCHANGED <<doc, lines, indent_unit, features, python_lines, mapping, stack,
                   endpoint_names, i, line, result, popped, dispatches, last_mapping>>

\* Compiler.compile(file_path, validate)
CompileReturns ==
    /\ UNCHANGED <<runtimeVars, conditionVars>>
    /\ pc = "returned"
    /\ \E validate \in BOOLEAN :
          outcome' = IF validate /\ ~TrialParse(python_lines)
                     THEN "CompileInvalid" ELSE "CompileText"
    /\ pc' = "done"
    /\ UNCHANGED <<doc, lines, indent_unit, features, python_lines, mapping, stack,
                   endpoint_names, i, line, result, popped, dispatches, last_mapping>>

Next ==
    \/ RejectEmpty
    \/ BeginTranslate
    \/ CloseBlocks
    \/ Dispatch
    \/ FinishTranslate
    \/ ReplReceives
    \/ CompileReturns

Spec == Init /\ [][Next]_vars

SpecMixed == InitMixed /\ [][Next]_vars

SpecIndented == InitIndented /\ [][Next]_vars

SpecStatements == InitStatements /\ [][Next]_vars

SpecInline == InitInline /\ [][Next]_vars

SpecMethods == InitMethods /\ [][Next]_vars

\* translate() and its caller run to completion: straight-line code in one thread.
SpecLoopFair == InitLoop /\ [][Next]_vars /\ WF_vars(Next)

(***************************************************************************)
(* Runtime.execute(): the calling thread, and runner() on the calling      *)
(* thread or on a daemon thread that a timeout abandons.                   *)
(***************************************************************************)
Current == Len(calls)

CallArgs(code, capture_output, filename, line_mapping, source_lines, timeout, safe_mode) ==
    [code |-> code, capture_output |-> capture_output, filename |-> filename,
     line_mapping |-> line_mapping, source_lines |-> source_lines,
     timeout |-> timeout, safe_mode |-> safe_mode,
     namespace |-> 0, expired |-> FALSE, streams |-> [out |-> 0, err |-> 0]]

\* Where runner() starts: it returns at once when compile() failed.
RunnerStart(args, thread) ==
    IF ~args.code.valid THEN RunnerAt("done", 0, thread, NoException)
    ELSE RunnerAt(IF args.capture_output THEN "enter_stdout" ELSE "exec",
                  IF args.code.preamble THEN 0 ELSE 1, thread, NoException)

\* execute() up to thread.start() or the direct call of runner().
Execute(args) ==
    /\ caller = "idle"
    /\ Len(calls) < MaxCalls
    /\ LET c == Len(calls) + 1
       IN /\ calls' = Append(calls, [args EXCEPT !.namespace = globals,
                                             !.streams = [out |-> sys_stdout,
                                                          err |-> sys_stderr]])
          /\ last_error' = <<>>
          /\ stdout_capture' = [stdout_capture EXCEPT ![c] = <<>>]
          /\ stderr_capture' = [stderr_capture EXCEPT ![c] = <<>>]
          /\ exec_globals' = [exec_globals EXCEPT ![c] = IF args.safe_mode THEN 2 * c
                                                         ELSE globals]
          /\ dicts' = IF args.safe_mode THEN [dicts EXCEPT ![2 * c] = dicts[globals]]
                      ELSE dicts
          /\ exception' = [exception EXCEPT ![c] =
                              IF args.code.valid THEN NoException
                              ELSE CompileFailure(args.filename, args.code)]
          /\ runner' = [runner EXCEPT ![c] =
                           RunnerStart(args, IF args.timeout THEN "worker" ELSE "caller")]
          /\ caller' = IF args.timeout THEN "join"
                       ELSE IF args.code.valid THEN "inline" ELSE "collect"
    /\ UNCHANGED <<globals, sys_stdout, sys_stderr, saved_targets, process_out,
                   process_err, locals_out, returned>>
    /\ UNCHANGED <<transpilerVars, conditionVars>>

\* A runner may take a step when its thread is scheduled: the daemon thread
\* always, the calling thread while it is inside runner().
Scheduled(c) ==
    /\ c <= Len(calls)
    /\ \/ runner[c].thread = "worker"
       \/ runner[c].thread = "caller" /\ caller = "inline" /\ c = Current

\* with redirect_stdout(stdout_capture): sys.stdout is saved and replaced.
RunnerEnterStdout(c) ==
    /\ Scheduled(c)
    /\ runner[c].at = "enter_stdout"
    /\ saved_targets' = [saved_targets EXCEPT ![c].out = sys_stdout]
    /\ sys_stdout' = c
    /\ runner' = [runner EXCEPT ![c].at = "enter_stderr"]
    /\ UNCHANGED <<calls, caller, globals, dicts, exec_globals, exception, sys_stderr,
                   stdout_capture, stderr_capture, process_out, process_err, locals_out,
                   returned, last_error>>
    /\ UNCHANGED <<transpilerVars, conditionVars>>

\* redirect_stderr(stderr_capture): sys.stderr is saved and replaced.
RunnerEnterStderr(c) ==
    /\ Scheduled(c)
    /\ runner[c].at = "enter_stderr"
    /\ saved_targets' = [saved_targets EXCEPT ![c].err = sys_stderr]
    /\ sys_stderr' = c
    /\ runner' = [runner EXCEPT ![c].at = "exec"]
    /\ UNCHANGED <<calls, caller, globals, dicts, exec_globals, exception, sys_stdout,
                   stdout_capture, stderr_capture, process_out, process_err, locals_out,
                   returned, last_error>>
    /\ UNCHANGED <<transpilerVars, conditionVars>>

ExecFilename(args) == IF args.filename = "" THEN "<string>" ELSE args.filename

\* Where runner() goes when exec() returns or raises.
Leave(args) == IF args.capture_output THEN "exit_stderr" ELSE "finish"

HasModule(d) == \E b \in dicts[d] : b.name = "sys"

\* The function the name f is bound to in dict d: the binding made last.
HasFunction(d) == \E b \in dicts[d] : b.name = "f"

FunctionIn(d) ==
    CHOOSE b \in dicts[d] :
        /\ b.name = "f"
        /\ \A o \in dicts[d] :
               o.name = "f" => (o.by < b.by \/ (o.by = b.by /\ o.line <= b.line))

\* The import in f's body is looked up in the builtins of f's own globals: the
\* dict in which the def statement ran.
ImportBlockedIn(f) == calls[f.by].safe_mode

\* What the statement at position ip raises (NoException when it completes).
Raises(args, ip, d) ==
    LET prog == args.code
        at_line(kind) == RaisedAtLine(kind, ExecFilename(args), LineOf(prog, ip),
                                      args.capture_output)
    IN IF ip = 0
       THEN IF args.safe_mode
            THEN BlockedImport(ExecFilename(args), 1, args.capture_output)
            ELSE NoException
       ELSE CASE prog.stmts[ip] = "raise" -> at_line("ValueError")
              [] prog.stmts[ip] = "exit" ->
                     IF HasModule(d) THEN at_line("SystemExit") ELSE at_line("NameError")
              [] prog.stmts[ip] = "call" ->
                     IF ~HasFunction(d) THEN at_line("NameError")
                     ELSE LET f == FunctionIn(d)
                              body == FunctionFrame(ExecFilename(calls[f.by]), f.line, f.by)
                              outer == <<RunnerFrame(args.capture_output),
                                         Frame(ExecFilename(args), LineOf(prog, ip))>>
                          IN IF ImportBlockedIn(f)
                             THEN Raised("ImportError",
                                         outer \o <<body, Frame(RuntimeFile, BlockedImportLine)>>,
                                         0)
                             ELSE Raised("ValueError", outer \o <<body>>, 0)
              [] OTHER -> NoException

AppendTo(captures, target, item) ==
    IF target = 0 THEN captures ELSE [captures EXCEPT ![target] = Append(@, item)]

AppendToProcess(stream, target, item) ==
    IF target = 0 THEN Append(stream, item) ELSE stream

\* exec(code_obj, exec_globals): one generated line.
RunnerExec(c) ==
    /\ Scheduled(c)
    /\ runner[c].at = "exec"
    /\ LET args == calls[c]
           ip == runner[c].ip
           d == exec_globals[c]
           last == Len(args.code.stmts)
           stmt == IF ip = 0 THEN "import" ELSE IF ip <= last THEN args.code.stmts[ip]
                   ELSE "end"
           failure == IF ip <= last THEN Raises(args, ip, d) ELSE NoException
       IN /\ runner' = [runner EXCEPT ![c] =
                           IF failure # NoException
                           THEN RunnerAt(Leave(args), ip, @.thread, failure)
                           ELSE IF ip >= last
                                THEN RunnerAt(Leave(args), ip, @.thread, NoException)
                                ELSE RunnerAt("exec", ip + 1, @.thread, NoException)]
          /\ dicts' = IF stmt = "call" /\ HasFunction(d) /\ ~ImportBlockedIn(FunctionIn(d))
                      THEN [dicts EXCEPT ![exec_globals[FunctionIn(d).by]] =
                                             @ \cup {Binding("sys", c)}]
                      ELSE IF failure # NoException THEN dicts
                      ELSE IF stmt = "define"
                      THEN [dicts EXCEPT ![d] = @ \cup {FunctionBinding(c, LineOf(args.code, ip))}]
                      ELSE IF stmt = "import" THEN [dicts EXCEPT ![d] = @ \cup {Binding("sys", c)}]
                      ELSE IF stmt = "bind" THEN [dicts EXCEPT ![d] = @ \cup {Binding("x", c)}]
                      ELSE dicts
          /\ stdout_capture' = IF stmt = "write_out"
                               THEN AppendTo(stdout_capture, sys_stdout, Written(c, <<>>))
                               ELSE stdout_capture
          /\ process_out' = IF stmt = "write_out"
                            THEN AppendToProcess(process_out, sys_stdout, Written(c, <<>>))
                            ELSE process_out
          /\ stderr_capture' = IF stmt = "write_err"
                               THEN AppendTo(stderr_capture, sys_stderr, Written(c, <<>>))
                               ELSE stderr_capture
          /\ process_err' = IF stmt = "write_err"
                            THEN AppendToProcess(process_err, sys_stderr, Written(c, <<>>))
                            ELSE process_err
    /\ UNCHANGED <<calls, caller, globals, exec_globals, exception, sys_stdout, sys_stderr,
                   saved_targets, locals_out, returned, last_error>>
    /\ UNCHANGED <<transpilerVars, conditionVars>>

\* redirect_stderr.__exit__: sys.stderr becomes what __enter__ saved.
RunnerExitStderr(c) ==
    /\ Scheduled(c)
    /\ runner[c].at = "exit_stderr"
    /\ sys_stderr' = saved_targets[c].err
    /\ runner' = [runner EXCEPT ![c].at = "exit_stdout"]
    /\ UNCHANGED <<calls, caller, globals, dicts, exec_globals, exception, sys_stdout,
                   saved_targets, stdout_capture, stderr_capture, process_out, process_err,
                   locals_out, returned, last_error>>
    /\ UNCHANGED <<transpilerVars, conditionVars>>

\* redirect_stdout.__exit__: sys.stdout becomes what __enter__ saved.
RunnerExitStdout(c) ==
    /\ Scheduled(c)
    /\ runner[c].at = "exit_stdout"
    /\ sys_stdout' = saved_targets[c].out
    /\ runner' = [runner EXCEPT ![c].at = "finish"]
    /\ UNCHANGED <<calls, caller, globals, dicts, exec_globals, exception, sys_stderr,
                   saved_targets, stdout_capture, stderr_capture, process_out, process_err,
                   locals_out, returned, last_error>>
    /\ UNCHANGED <<transpilerVars, conditionVars>>

\* `except Exception as exc: exception = exc`, or runner() returning.  A
\* SystemExit is no Exception: it ends a daemon thread silently and, on the
\* calling thread, leaves execute().
RunnerFinish(c) ==
    /\ Scheduled(c)
    /\ runner[c].at = "finish"
    /\ runner' = [runner EXCEPT ![c].at = "done"]
    /\ exception' = IF runner[c].pending.kind \notin {"None", "SystemExit"}
                    THEN [exception EXCEPT ![c] = runner[c].pending]
                    ELSE exception
    /\ caller' = IF runner[c].thread = "caller"
                 THEN IF runner[c].pending.kind = "SystemExit" THEN "exited" ELSE "collect"
                 ELSE caller
    /\ UNCHANGED <<calls, globals, dicts, exec_globals, sys_stdout, sys_stderr,
                   saved_targets, stdout_capture, stderr_capture, process_out, process_err,
                   locals_out, returned, last_error>>
    /\ UNCHANGED <<transpilerVars, conditionVars>>

\* thread.join(timeout) returns and thread.is_alive() is read.
JoinThenIsAlive ==
    /\ caller = "join"
    /\ caller' = IF runner[Current].at # "done" THEN "expired" ELSE "collect"
    /\ calls' = [calls EXCEPT ![Current].expired = runner[Current].at # "done"]
    /\ UNCHANGED <<globals, dicts, exec_globals, exception, runner, sys_stdout, sys_stderr,
                   saved_targets, stdout_capture, stderr_capture, process_out, process_err,
                   locals_out, returned, last_error>>
    /\ UNCHANGED <<transpilerVars, conditionVars>>

\* exception = TimeoutError(...)
SetTimeoutError ==
    /\ caller = "expired"
    /\ exception' = [exception EXCEPT ![Current] = TimeoutFailure]
    /\ caller' = "reset"
    /\ UNCHANGED <<calls, globals, dicts, exec_globals, runner, sys_stdout, sys_stderr,
                   saved_targets, stdout_capture, stderr_capture, process_out, process_err,
                   locals_out, returned, last_error>>
    /\ UNCHANGED <<transpilerVars, conditionVars>>

ResetAfterTimeoutKeepsDict ==
    /\ caller = "reset"
    /\ caller' = "collect"
    /\ UNCHANGED <<calls, globals, dicts, exec_globals, exception, runner, sys_stdout,
                   sys_stderr, saved_targets, stdout_capture, stderr_capture, process_out,
                   process_err, locals_out, returned, last_error>>
    /\ UNCHANGED <<transpilerVars, conditionVars>>

\* self.reset() after a timeout: self.globals becomes a new dict.
ResetAfterTimeout ==
    /\ caller = "reset"
    /\ globals' = 2 * Current + 1
    /\ dicts' = [dicts EXCEPT ![2 * Current + 1] = {}]
    /\ caller' = "collect"
    /\ UNCHANGED <<calls, exec_globals, exception, runner, sys_stdout, sys_stderr,
                   saved_targets, stdout_capture, stderr_capture, process_out, process_err,
                   locals_out, returned, last_error>>
    /\ UNCHANGED <<transpilerVars, conditionVars>>

\* Runtime.reset() called between two execute() calls (the REPL's reset command).
Reset ==
    /\ caller = "idle"
    /\ Len(calls) < MaxCalls
    /\ globals # 2 * Current + 1
    /\ globals' = 2 * Current + 1
    /\ dicts' = [dicts EXCEPT ![2 * Current + 1] = {}]
    /\ UNCHANGED <<calls, caller, exec_globals, exception, runner, sys_stdout, sys_stderr,
                   saved_targets, stdout_capture, stderr_capture, process_out, process_err,
                   locals_out, returned, last_error>>
    /\ UNCHANGED <<transpilerVars, conditionVars>>

\* stdout = stdout_capture.getvalue(); stderr = stderr_capture.getvalue()
Collect ==
    /\ caller = "collect"
    /\ locals_out' = IF calls[Current].capture_output
                     THEN [stdout |-> stdout_capture[Current],
                           stderr |-> stderr_capture[Current]]
                     ELSE [stdout |-> <<>>, stderr |-> <<>>]
    /\ caller' = "test"
    /\ UNCHANGED <<calls, globals, dicts, exec_globals, exception, runner, sys_stdout,
                   sys_stderr, saved_targets, stdout_capture, stderr_capture, process_out,
                   process_err, returned, last_error>>
    /\ UNCHANGED <<transpilerVars, conditionVars>>

\* `if exception:` and, when it is None, the final return.
TestException ==
    /\ caller = "test"
    /\ IF exception[Current] # NoException
       THEN /\ caller' = "format"
            /\ UNCHANGED returned
       ELSE /\ caller' = "idle"
            /\ returned' = [returned EXCEPT ![Current] =
                               [done |-> TRUE,
                                stdout |-> IF calls[Current].capture_output
                                           THEN stdout_capture[Current] ELSE <<>>,
                                stderr |-> IF calls[Current].capture_output
                                           THEN stderr_capture[Current] ELSE <<>>,
                                exception |-> NoException]]
    /\ UNCHANGED <<calls, globals, dicts, exec_globals, exception, runner, sys_stdout,
                   sys_stderr, saved_targets, stdout_capture, stderr_capture, process_out,
                   process_err, locals_out, last_error>>
    /\ UNCHANGED <<transpilerVars, conditionVars>>

\* formatted = self._format_exception(exception, ...) and the writing of it.
FormatAndWrite ==
    /\ caller = "format"
    /\ LET args == calls[Current]
           formatted == FormatException(exception[Current], ExecFilename(args),
                                        args.line_mapping, args.source_lines)
           item == Written(Current, formatted)
       IN /\ last_error' = formatted
          /\ IF args.capture_output
             THEN /\ stderr_capture' = [stderr_capture EXCEPT ![Current] = Append(@, item)]
                  /\ locals_out' = [stdout |-> stdout_capture[Current],
                                    stderr |-> stderr_capture'[Current]]
                  /\ UNCHANGED process_err
             ELSE /\ stderr_capture' = AppendTo(stderr_capture, sys_stderr, item)
                  /\ process_err' = AppendToProcess(process_err, sys_stderr, item)
                  /\ UNCHANGED locals_out
    /\ caller' = "return"
    /\ UNCHANGED <<calls, globals, dicts, exec_globals, exception, runner, sys_stdout,
                   sys_stderr, saved_targets, stdout_capture, process_out, returned>>
    /\ UNCHANGED <<transpilerVars, conditionVars>>

\* return (stdout, stderr, exception)
ReturnFailure ==
    /\ caller = "return"
    /\ returned' = [returned EXCEPT ![Current] =
                       [done |-> TRUE, stdout |-> locals_out.stdout,
                        stderr |-> locals_out.stderr, exception |-> exception[Current]]]
    /\ caller' = "idle"
    /\ UNCHANGED <<calls, globals, dicts, exec_globals, exception, runner, sys_stdout,
                   sys_stderr, saved_targets, stdout_capture, stderr_capture, process_out,
                   process_err, locals_out, last_error>>
    /\ UNCHANGED <<transpilerVars, conditionVars>>

RunnerStep ==
    \E c \in CallIds :
        \/ RunnerEnterStdout(c)
        \/ RunnerEnterStderr(c)
        \/ RunnerExec(c)
        \/ RunnerExitStderr(c)
        \/ RunnerExitStdout(c)
        \/ RunnerFinish(c)

CallerStep ==
    \/ JoinThenIsAlive
    \/ SetTimeoutError
    \/ ResetAfterTimeout
    \/ Collect
    \/ TestException
    \/ FormatAndWrite
    \/ ReturnFailure

\* The source lines the REPL passes: transpiler.last_source_lines.
SourceLinesOf(prog) == prog.stmts

\* Calls that bind names, in either mode, with and without a timeout.
NamespaceCalls ==
    {CallArgs(prog, TRUE, ReplFile, LineMappingOf(prog), SourceLinesOf(prog), t, safe) :
        prog \in ProgramsOf(MaxStatements, {"bind"}, BOOLEAN, {TRUE}),
        t \in BOOLEAN, safe \in BOOLEAN}

\* Calls that raise and exit, with and without a timeout.
TimeoutCalls ==
    {CallArgs(prog, TRUE, ReplFile, LineMappingOf(prog), SourceLinesOf(prog), t, FALSE) :
        prog \in ProgramsOf(MaxStatements, {"raise", "exit"}, BOOLEAN, {TRUE}),
        t \in BOOLEAN}

\* Capturing calls of one statement that writes, with and without a timeout.
CaptureCalls ==
    {CallArgs(Program(FALSE, <<st>>, TRUE), TRUE, ReplFile, NoMapping, <<>>, t, FALSE) :
        st \in {"write_out", "write_err"}, t \in BOOLEAN}

\* Calls that fail, over every combination of line_mapping and source_lines.
\* A text that compile() rejects has a line to reject.
DiagnosticCalls ==
    UNION {{CallArgs(prog, capture, file, lm, sl, t, safe) :
               lm \in {NoMapping, LineMappingOf(prog)},
               sl \in {<<>>, SourceLinesOf(prog)},
               capture \in BOOLEAN, safe \in BOOLEAN, file \in {ReplFile, ""},
               t \in BOOLEAN} :
           prog \in {p \in ProgramsOf(MaxFailingStatements, {"write_err", "raise", "bind"},
                                      BOOLEAN, BOOLEAN) : p.valid \/ p.stmts # <<>>}}

RuntimeInit == StartState(<<>>) /\ RuntimeIdle /\ ConditionIdle

NextNamespace ==
    \/ caller = "idle" /\ Len(calls) < MaxCalls /\ \E args \in NamespaceCalls : Execute(args)
    \/ Reset
    \/ RunnerStep
    \/ CallerStep

NextTimeout ==
    \/ caller = "idle" /\ Len(calls) < MaxCalls /\ \E args \in TimeoutCalls : Execute(args)
    \/ Reset
    \/ RunnerStep
    \/ CallerStep

NextCapture ==
    \/ caller = "idle" /\ Len(calls) < MaxCalls /\ \E args \in CaptureCalls : Execute(args)
    \/ Reset
    \/ RunnerStep
    \/ CallerStep

\* One failing call on a fresh Runtime.
NextDiagnostics ==
    \/ caller = "idle" /\ calls = <<>> /\ \E args \in DiagnosticCalls : Execute(args)
    \/ Reset
    \/ RunnerStep
    \/ CallerStep

SpecNamespace == RuntimeInit /\ [][NextNamespace]_vars

\* Calls that bind names without capture, for the reset after a timeout: the
\* worker is in exec() or past it, nothing else.
AbandonedCalls ==
    {CallArgs(prog, FALSE, ReplFile, NoMapping, <<>>, t, safe) :
        prog \in ProgramsOf(MaxStatements, {"bind"}, {FALSE}, {TRUE}),
        t \in BOOLEAN, safe \in BOOLEAN}

NextAbandoned ==
    \/ caller = "idle" /\ Len(calls) < MaxCalls /\ \E args \in AbandonedCalls : Execute(args)
    \/ Reset
    \/ \E c \in CallIds : RunnerExec(c) \/ RunnerFinish(c)
    \/ CallerStep

SpecAbandoned == RuntimeInit /\ [][NextAbandoned]_vars

SpecTimeout == RuntimeInit /\ [][NextTimeout]_vars

SpecCapture == RuntimeInit /\ [][NextCapture]_vars

SpecDiagnostics == RuntimeInit /\ [][NextDiagnostics]_vars

\* The rounds of the REPL: every input is run under the unit name "<repl>" with
\* the LineMap and the source lines of its own translation, without timeout.
RoundCalls ==
    {CallArgs(prog, TRUE, ReplFile, LineMappingOf(prog), SourceLinesOf(prog), FALSE, safe) :
        prog \in ProgramsOf(MaxRoundStatements, {"bind", "define", "call"}, {FALSE}, {TRUE}),
        safe \in BOOLEAN}

NextRounds ==
    \/ caller = "idle" /\ Len(calls) < MaxCalls /\ \E args \in RoundCalls : Execute(args)
    \/ Reset
    \/ RunnerStep
    \/ Collect
    \/ TestException
    \/ FormatAndWrite
    \/ ReturnFailure

SpecRounds == RuntimeInit /\ [][NextRounds]_vars

\* Condition phrases of the idiom table, each with the text its own idiom returns
\* for it (the return statements of _parse_condition).
Phrase(kind, words, cond) == [kind |-> kind, words |-> words, cond |-> cond]

IdiomPhrases ==
    UNION {{Phrase("comparison", <<a, "is", "greater", "than", "5">>, <<a, ">", "5">>),
            Phrase("comparison", <<a, "is", "greater", "than", "or", "equal", "to", "5">>,
                   <<a, ">=", "5">>),
            Phrase("comparison", <<a, "is", "less", "than", "5">>, <<a, "<", "5">>),
            Phrase("comparison", <<a, "is", "less", "than", "or", "equal", "to", "5">>,
                   <<a, "<=", "5">>),
            Phrase("comparison", <<a, "is", "1">>, <<a, "==", "1">>),
            Phrase("comparison", <<a, "is", "true">>, <<a, "==", "True">>),
            Phrase("comparison", <<a, "is", "not", "1">>, <<a, "!=", "1">>),
            Phrase("membership", <<a, "is", "in", "y">>, <<a, "in", "y">>),
            Phrase("membership", <<a, "is", "not", "in", "y">>, <<a, "not", "in", "y">>),
            Phrase("contains", <<a, "contains", "1">>, <<"1", "in", a>>),
            Phrase("contains", <<a, "has", "1">>, <<"1", "in", a>>),
            Phrase("emptiness", <<a, "is", "empty">>, <<"len(", a, ")", "==", "0">>),
            Phrase("emptiness", <<a, "is", "not", "empty">>, <<"len(", a, ")", "!=", "0">>),
            Phrase("not", <<"not", a, "is", "1">>, <<"not", "(", a, "==", "1", ")">>),
            Phrase("between", <<a, "is", "between", "1", "and", "5">>,
                   <<"1", "<=", a, "<=", "5">>)} : a \in {"x", "y"}}

\* The text of phrases joined by one connective.
RECURSIVE JoinWords(_, _)
JoinWords(phrases, word) ==
    IF phrases = <<>> THEN <<>>
    ELSE Head(phrases).words
         \o (IF Len(phrases) = 1 THEN <<>> ELSE <<word>> \o JoinWords(Tail(phrases), word))

\* A condition: its text, and the phrases and the connective it was written with.
Condition(phrases, word) ==
    [text |-> JoinWords(phrases, word), phrases |-> phrases, word |-> word]

Conditions ==
    {Condition(ps, w) : w \in {"or", "and"},
                        ps \in UNION {[1..n -> IdiomPhrases] : n \in 1..MaxPhrases}}

InitCondition ==
    /\ StartState(<<>>)
    /\ RuntimeIdle
    /\ condition \in Conditions
    /\ parsed_condition = <<>>
    /\ expression = <<>>
    /\ parsed_expression = <<>>

\* One call of _parse_condition(condition).
CallParseCondition ==
    /\ condition.text # <<>>
    /\ parsed_condition = <<>>
    /\ parsed_condition' = ParseCondition(condition.text)
    /\ UNCHANGED <<condition, expression, parsed_expression, transpilerVars, runtimeVars>>

NextCondition == CallParseCondition

SpecCondition == InitCondition /\ [][NextCondition]_vars

\* The phrases given to _parse_expression: up to MaxWords words.
ExpressionWords ==
    {"x", "1", "true", "empty", "contains", "is", "not", "or", QuoteWord, BackslashWord}

Expressions == UNION {[1..n -> ExpressionWords] : n \in 1..MaxWords}

InitExpression ==
    /\ StartState(<<>>)
    /\ RuntimeIdle
    /\ condition = NoCondition
    /\ parsed_condition = <<>>
    /\ expression \in Expressions
    /\ parsed_expression = <<>>

\* One call of _parse_expression(expression).
CallParseExpression ==
    /\ expression # <<>>
    /\ parsed_expression = <<>>
    /\ parsed_expression' = ParseExpression(expression)
    /\ UNCHANGED <<condition, parsed_condition, expression, transpilerVars, runtimeVars>>

NextExpression == CallParseExpression

SpecExpression == InitExpression /\ [][NextExpression]_vars

(***************************************************************************)
(* Properties.                                                             *)
(***************************************************************************)
Translated == pc = "returned" \/ (pc = "done" /\ outcome # "EmptyInput")
LoopFinished == pc = "assemble" \/ Translated

DeeperOnlyAfterHeader(s) ==
    \A k \in 2..Len(s) : s[k].indent > s[k - 1].indent => IsBlockHeader(s[k - 1].text)

HeaderHasBody(s) ==
    \A k \in 1..Len(s) :
        IsBlockHeader(s[k].text) => (k < Len(s) /\ s[k + 1].indent > s[k].indent)

\* C1: whenever translate(D) returns, the generated text passes the trial parse,
\* indentation included: a line is deeper than the line before it only when that
\* line is a block header, and every block header is followed by a deeper line.
C1_GeneratedTextParses ==
    Translated =>
        /\ TrialParse(python_lines)
        /\ DeeperOnlyAfterHeader(NonBlank(python_lines))
        /\ HeaderHasBody(NonBlank(python_lines))

\* C2: no caller of translate() (the REPL, Compiler.compile) is handed generated
\* text that fails the trial parse; invalid text makes the call fail instead.
C2_CallersNeverGetInvalidText ==
    outcome \in {"ReplText", "CompileText"} => TrialParse(python_lines)

\* C3: generated line n is a key of the LineMap exactly when it was emitted by
\* dispatching a source line, and LineMap[n] is then that source line; preamble,
\* separator, bootstrap and entrypoint lines have no entry.
C3_LineMapMatchesDispatch ==
    Translated =>
        /\ DOMAIN last_mapping \subseteq 1..Len(python_lines)
        /\ \A n \in 1..Len(python_lines) :
              /\ n \in DOMAIN last_mapping <=> python_lines[n].origin # None
              /\ n \in DOMAIN last_mapping => last_mapping[n] = python_lines[n].origin

C3_Witness ==
    /\ pc = "returned"
    /\ features.flask_app
    /\ Len(lines) >= 2
    /\ \E n \in DOMAIN last_mapping : last_mapping[n] = lines[2]

\* C4: every SourceLine in the LineMap has line_no equal to the 1-based physical
\* position, blank and comment lines counted, of the line whose content it carries.
C4_LineNoIsPhysicalPosition ==
    \A n \in DOMAIN last_mapping :
        LET src == last_mapping[n]
        IN /\ src.line_no \in 1..Len(doc)
           /\ doc[src.line_no].text = src.content
           /\ CountIndent(doc[src.line_no]) = src.indent

C4_Witness ==
    /\ pc = "returned"
    /\ Len(doc) = 3
    /\ IsBlank(doc[1])
    /\ IsComment(doc[2])
    /\ doc[3].lead = <<"tab">>
    /\ \E n \in DOMAIN last_mapping : last_mapping[n].line_no = 3

\* C5: in every state of translate() the block stack is strictly increasing in
\* indent from bottom to top.
C5_StackStrictlyIncreasing ==
    \A k \in 1..(Len(stack) - 1) : stack[k].indent < stack[k + 1].indent

C5_Witness == pc = "dispatch" /\ Len(stack) >= 2

\* C6: when a line is dispatched, every entry on the block stack has indent
\* strictly less than the line's indent; one dedent may close several blocks.
C6_StackBelowDispatchedLine ==
    pc = "dispatch" => \A k \in 1..Len(stack) : stack[k].indent < line.indent

C6_Witness ==
    /\ pc = "dispatch"
    /\ line.indent = 0
    /\ Len(popped) = 2
    /\ popped[1].indent = 2
    /\ popped[2].indent = 4

ConsumedBy(k) ==
    {d \in 1..Len(dispatches) :
        dispatches[d].index <= k /\ k < dispatches[d].index + dispatches[d].consumed}

ConsumptionIsPartition ==
    /\ \A d \in 1..Len(dispatches) :
          /\ dispatches[d].consumed >= 1
          /\ dispatches[d].index + dispatches[d].consumed <= Len(lines)
          /\ dispatches[d].index = IF d = 1 THEN 0
                                   ELSE dispatches[d - 1].index + dispatches[d - 1].consumed
          /\ \A k \in (dispatches[d].index + 1)..(dispatches[d].index + dispatches[d].consumed - 1) :
                /\ MatchedPattern(lines[dispatches[d].index + 1].content) = "string_length_comparison"
                /\ ElseInlineMatches(lines[k + 1].content)
    /\ i = IF dispatches = <<>> THEN 0
           ELSE dispatches[Len(dispatches)].index + dispatches[Len(dispatches)].consumed
    /\ LoopFinished => \A k \in 0..(Len(lines) - 1) : Cardinality(ConsumedBy(k)) = 1

\* C8: the per-line loop terminates and every tokenized line is consumed by
\* exactly one dispatch: consumed >= 1, the consumed ranges are contiguous, none
\* runs past the last line, and a line absorbed by a dispatch is the 'otherwise'
\* line that follows a string-length comparison.
C8_LoopConsumesEveryLineOnce == []ConsumptionIsPartition /\ <>(pc = "done")

C8_Witness ==
    /\ pc = "done"
    /\ Len(lines) = 3
    /\ Len(dispatches) = 2
    /\ dispatches[1].consumed = 2

\* C9 as the sentence computes it: 4 with no positive indent, the single value
\* with one, else the least difference between two distinct positive indents.
PositiveIndents(ls) == {ls[k].indent : k \in {j \in 1..Len(ls) : ls[j].indent > 0}}

ClaimedUnit(ls) ==
    LET P == PositiveIndents(ls)
    IN IF P = {} THEN 4
       ELSE IF Cardinality(P) = 1 THEN CHOOSE x \in P : TRUE
       ELSE SetMin({b - a : <<a, b>> \in {pr \in P \X P : pr[2] > pr[1]}})

\* C9: the inferred indent unit is an integer >= 1 and is 4, the single positive
\* indent, or the minimum positive difference between the distinct positive indents.
C9_IndentUnitIsMinimumGap ==
    (pc # "start" /\ outcome # "EmptyInput") =>
        /\ indent_unit \in Nat
        /\ indent_unit >= 1
        /\ indent_unit = ClaimedUnit(lines)

C9_Witness ==
    /\ pc = "pop"
    /\ {lines[k].indent : k \in 1..Len(lines)} = {0, 2, 4, 8}
    /\ indent_unit = 2

IsHeaderForm(text) ==
    MatchedPattern(text) \in {"while_do", "api_endpoint_block", "create_class", "instance_method"}

BodyFollows == i + 1 < Len(lines) /\ lines[i + 2].indent > line.indent

\* C10: a block-opening header pushes a stack entry exactly when the next
\* tokenized line exists and is deeper; otherwise its result is the header and a
\* synthesized body line one nesting level deeper, and the stack is unchanged.
C10_HeaderOpensIffBodyFollows ==
    [][(pc = "dispatch" /\ IsHeaderForm(line.content)) =>
          LET n == Len(result'.lines)
              m == Len(python_lines')
          IN /\ result'.opens_block <=> BodyFollows
             /\ BodyFollows =>
                   /\ Len(stack') = Len(stack) + 1
                   /\ SubSeq(stack', 1, Len(stack)) = stack
                   /\ stack'[Len(stack')].indent = line.indent
                   /\ IsBlockHeader(result'.lines[n].text)
                   /\ python_lines'[m].indent = line.indent
             /\ ~BodyFollows =>
                   /\ stack' = stack
                   /\ IsBlockHeader(result'.lines[n - 1].text)
                   /\ result'.lines[n].text \in {"pass", "return \"\""}
                   /\ python_lines'[m - 1].indent = line.indent
                   /\ python_lines'[m].indent = line.indent + indent_unit
                   /\ python_lines'[m].text = result'.lines[n].text
      ]_vars

\* The names the generated code of call c can read.
VisibleTo(c) == dicts[exec_globals[c]]

\* No reset() and no timeout lies between the starts of calls c1 and c2.
SameNamespace(c1, c2) == calls[c1].namespace = calls[c2].namespace

\* C11: a top-level binding made by one execute() call is visible to every later
\* call on the same Runtime, in restricted and unrestricted mode alike, as long
\* as no reset() and no timeout lies between them.
C11_BindingsPersistAcrossCalls ==
    \A c1 \in 1..Len(calls) : \A c2 \in (c1 + 1)..Len(calls) :
        (SameNamespace(c1, c2) /\ Binding("x", c1) \in VisibleTo(c1))
            => Binding("x", c1) \in VisibleTo(c2)

\* C12: a call whose worker was still running when the timeout expired returns a
\* TimeoutError as its failure, whatever the worker does afterwards.
C12_ExpiredCallReturnsTimeoutError ==
    \A c \in 1..Len(calls) :
        (calls[c].expired /\ returned[c].done)
            => returned[c].exception.kind = "TimeoutError"

\* A call that expired has returned and the Runtime is between calls.
ExpiredAndReturned(c) == c <= Len(calls) /\ calls[c].expired /\ returned[c].done

\* C13: a call that timed out has replaced the namespace before it returns, and
\* no later call sees a binding made by a call that started before the timeout,
\* neither one made before the timeout nor one the abandoned worker makes later.
C13_NamespaceResetAfterTimeout ==
    \A c \in 1..Len(calls) :
        ExpiredAndReturned(c) =>
            /\ \A b \in dicts[globals] : b.by > c
            /\ \A c2 \in (c + 1)..Len(calls) : \A b \in VisibleTo(c2) : b.by > c

\* A call timed out, its abandoned worker then bound a name, and a later call
\* has run to its end.
C13_Witness ==
    /\ Len(calls) = 2
    /\ ExpiredAndReturned(1)
    /\ Binding("x", 1) \in VisibleTo(1)
    /\ returned[2].done

\* The text the code of call c wrote itself (not the diagnostic execute() adds).
CodeWrote(stream, c) == \E k \in 1..Len(stream) : stream[k] = Written(c, <<>>)

\* C14: with capture enabled, what a call's code writes to stdout and stderr ends
\* up in that call's own buffers: none of it reaches the process's streams or
\* another call's buffers, also while an abandoned worker is still running.
C14_OutputStaysInOwnBuffers ==
    \A c \in 1..Len(calls) :
        calls[c].capture_output =>
            /\ ~CodeWrote(process_out, c)
            /\ ~CodeWrote(process_err, c)
            /\ \A c2 \in 1..Len(calls) :
                   c2 # c => ~CodeWrote(stdout_capture[c2], c) /\ ~CodeWrote(stderr_capture[c2], c)

\* C15: a failure raised by the generated code never leaves execute(): whatever
\* the code raised, the interpreter exit of the exit idiom included, is the
\* failure value the call returns, with and without a timeout.
C15_FailuresAreReturned ==
    /\ caller # "exited"
    /\ \A c \in 1..Len(calls) :
           (returned[c].done /\ ~calls[c].expired /\ runner[c].pending # NoException)
               => returned[c].exception = runner[c].pending

\* C16: generated code cannot load a module: no module is ever bound in a
\* namespace, and a call whose code holds an import statement returns the
\* import failure.
C16_ImportsAreDisabled ==
    /\ \A d \in DictIds : ~HasModule(d)
    /\ \A c \in 1..Len(calls) :
           (returned[c].done /\ ~calls[c].expired /\ calls[c].code.preamble)
               => returned[c].exception.kind = "ImportError"

\* The frames of the failure that belong to the generated unit of the call.
UnitFrames(exc, args) ==
    {k \in 1..Len(exc.frames) : exc.frames[k].filename = ExecFilename(args)}

\* The three-line diagnostic of a failure whose origin is the source line src.
MappedDiagnostic(args, src, exc) ==
    <<DiagLine("origin", ExecFilename(args), src.line_no, 0, ""),
      DiagLine("Plain", "", 0, src.indent, src.content),
      DiagLine("failure", "", 0, 0, exc.kind)>>

\* C17: when the failure a call returns has its innermost frame of the generated
\* unit at a generated line with a LineMap entry, the diagnostic is the three
\* lines "<unit>:<original line_no>", "Plain: <original text>", "<kind>: <message>";
\* a capturing call returns it as the end of stderr, after the text the code
\* wrote to stderr, and a call without capture writes it to the stderr stream.
C17_MappedFailureDiagnostic ==
    \A c \in 1..Len(calls) :
        LET args == calls[c]
            exc == returned[c].exception
            own == UnitFrames(exc, args)
            err == returned[c].stderr
        IN (returned[c].done /\ own # {}
                /\ exc.frames[SetMax(own)].lineno \in DOMAIN args.line_mapping)
           => LET src == args.line_mapping[exc.frames[SetMax(own)].lineno]
                  item == Written(c, MappedDiagnostic(args, src, exc))
              IN IF args.capture_output
                 THEN /\ err # <<>>
                      /\ err[Len(err)] = item
                      /\ \A k \in 1..(Len(err) - 1) : err[k] = Written(c, <<>>)
                 ELSE \E k \in 1..Len(process_err) : process_err[k] = item

\* The generated line at which a failure lies: the line of its innermost frame
\* in the generated unit or, when compile() rejected the text, the line the
\* SyntaxError points at.
GeneratedLineOf(exc, args) ==
    IF UnitFrames(exc, args) # {}
    THEN exc.frames[SetMax(UnitFrames(exc, args))].lineno
    ELSE exc.lineno

\* C18: a failure without a mapped origin (it lies at a synthetic line, or the
\* text does not compile) is reported with the line number of the generated text
\* at which it lies: the diagnostic names no pseudocode line and no line number
\* of a frame of another file.
C18_UnmappedFailureDiagnostic ==
    \A c \in 1..Len(calls) :
        LET args == calls[c]
            exc == returned[c].exception
        IN (/\ c = Current
            /\ returned[c].done
            /\ ~args.expired
            /\ exc # NoException
            /\ GeneratedLineOf(exc, args) \notin DOMAIN args.line_mapping)
           => last_error = <<DiagLine("python line", ExecFilename(args),
                                      GeneratedLineOf(exc, args), 0, ""),
                              DiagLine("failure", "", 0, 0, exc.kind)>>

\* What the claims expect for a condition of several phrases: the text of each
\* phrase's own idiom, parenthesized, joined by the connective.
ParenthesizedPhrases ==
    JoinParenthesized([k \in 1..Len(condition.phrases) |-> condition.phrases[k].cond],
                      condition.word)

\* C19: "V is between A and B and C", also with several between-ranges joined by
\* "and", is parsed to the conjunction of the range test "A <= V <= B" and the
\* translation of C, each parenthesized: the "and" of a range is no split point.
C19_BetweenRangeIsNotSplit ==
    (/\ parsed_condition # <<>>
     /\ Len(condition.phrases) >= 2
     /\ condition.word = "and"
     /\ condition.phrases[1].kind = "between")
        => parsed_condition = ParenthesizedPhrases

\* C20: "A or B" and "A and B" over phrases of the idiom table (comparison,
\* membership, contains/has, emptiness, "not") are parsed to "(cond(A)) or
\* (cond(B))" and "(cond(A)) and (cond(B))": no idiom is matched across the
\* connective before the split.
C20_ConnectivesSplitFirst ==
    (/\ parsed_condition # <<>>
     /\ Len(condition.phrases) >= 2
     /\ \A k \in 1..Len(condition.phrases) : condition.phrases[k].kind # "between")
        => parsed_condition = ParenthesizedPhrases

\* C28: the stdout and stderr text a capturing call returns holds only what the
\* code passed to that call wrote (and the call's own diagnostic), never the
\* output of a worker abandoned by an earlier timed-out call.
C28_ReturnedOutputIsOwn ==
    \A c \in 1..Len(calls) :
        (returned[c].done /\ calls[c].capture_output)
            => /\ \A k \in 1..Len(returned[c].stdout) : returned[c].stdout[k].by = c
               /\ \A k \in 1..Len(returned[c].stderr) : returned[c].stderr[k].by = c

\* C29: when execute() returns, normally, with a failure or on timeout, sys.stdout
\* and sys.stderr are the objects they were when the call started.
C29_StreamsRestoredOnReturn ==
    [][(caller # "idle" /\ caller' = "idle")
           => /\ sys_stdout' = calls[Current].streams.out
              /\ sys_stderr' = calls[Current].streams.err]_vars

\* C30: in a safe_mode call no import succeeds, whatever earlier calls left in
\* the namespace, functions defined by an unrestricted call included.
C30_NoImportInSafeMode ==
    \A d \in DictIds : \A b \in dicts[d] :
        (b.name = "sys" /\ b.by <= Len(calls)) => ~calls[b.by].safe_mode

\* The round whose text holds the generated statement at which a failure lies.
RoundOf(c, frame) == IF frame.round = 0 THEN c ELSE frame.round

\* C27: over the rounds run on one Runtime under one unit name, a diagnostic that
\* names a pseudocode line names the line whose translation holds the failing
\* generated statement, also when that statement is in a function an earlier
\* round defined and the LineMap passed is the current round's.
C27_DiagnosticNamesFailingLine ==
    \A c \in 1..Len(calls) :
        LET args == calls[c]
            exc == returned[c].exception
            own == UnitFrames(exc, args)
        IN (/\ c = Current
            /\ returned[c].done
            /\ exc # NoException
            /\ own # {}
            /\ last_error # <<>>
            /\ last_error[1].tag = "origin")
           => LET failing == exc.frames[SetMax(own)]
                  text == calls[RoundOf(c, failing)].line_mapping
              IN /\ failing.lineno \in DOMAIN text
                 /\ last_error[1].lineno = text[failing.lineno].line_no
                 /\ Len(last_error) >= 2
                 /\ last_error[2].tag = "Plain"
                 /\ last_error[2].text = text[failing.lineno].content

\* The phrases "X is greater than or equal to Y" and "X is less than or equal to Y".
IsOrEqualPhrase(p) ==
    \E k \in 1..Len(p.words) :
        /\ k + 4 <= Len(p.words)
        /\ SubSeq(p.words, k, k + 4) \in {<<"greater", "than", "or", "equal", "to">>,
                                          <<"less", "than", "or", "equal", "to">>}

\* C25: a condition that is one phrase "X is greater than or equal to Y" or
\* "X is less than or equal to Y" is parsed to "expr(X) >= expr(Y)", respectively
\* "expr(X) <= expr(Y)": the "or" of the idiom is no disjunction.
C25_OrEqualIsOneComparison ==
    (/\ parsed_condition # <<>>
     /\ Len(condition.phrases) = 1
     /\ IsOrEqualPhrase(condition.phrases[1]))
        => parsed_condition = condition.phrases[1].cond

\* A phrase none of the idioms of _parse_expression rewrites.
NoExpressionIdiom(expr) ==
    /\ expr # <<"true">>
    /\ expr[1] # "not"
    /\ Occurrences(expr, <<"contains">>) = {}
    /\ ~EndsWith(expr, <<"is", "not", "empty">>)
    /\ ~EndsWith(expr, <<"is", "empty">>)

\* C21: a phrase no idiom rewrites is returned unchanged when it passes the trial
\* parse, and as a quoted string literal, its double quotes and backslashes
\* escaped, when it does not (a phrase that is a reserved word included); either
\* way the result passes the trial parse.
C21_ExpressionIsValidOrQuoted ==
    (parsed_expression # <<>> /\ NoExpressionIdiom(expression))
        => IF IsValidPythonExpr(expression)
           THEN parsed_expression = expression
           ELSE parsed_expression = QuoteString(expression)

\* The generated lines that the dispatch of the source line ln emitted.
GeneratedFrom(ln) == {k \in 1..Len(python_lines) : python_lines[k].origin = ln}

\* C22: a source line that is a valid target statement already is emitted as
\* exactly one generated line, whose text is the trimmed content of the source
\* line, at the indentation of the source line: no pattern rewrites it.
C22_ValidStatementIsKept ==
    Translated =>
        \A n \in 1..Len(lines) :
            IsValidStatement(lines[n].content) =>
                \E k \in 1..Len(python_lines) :
                    /\ GeneratedFrom(lines[n]) = {k}
                    /\ python_lines[k].text = lines[n].content
                    /\ python_lines[k].indent = lines[n].indent

\* The import statement a generated statement needs ("" when it needs none).
ImportNeededBy(text) ==
    CASE text = "time.sleep(5)" -> "import time"
      [] text = "sys.exit(0)" -> "import sys"
      [] text = "logging.info(x)" -> "import logging"
      [] OTHER -> ""

\* C23: whenever the generated text holds a statement that uses a module of the
\* catalogue (time.sleep, sys.exit, logging.<level>), the preamble holds the
\* import of that module.
C23_UsedModuleIsImported ==
    Translated =>
        \A k \in 1..Len(python_lines) :
            ImportNeededBy(python_lines[k].text) # ""
                => \E j \in 1..(k - 1) :
                       /\ python_lines[j].origin = None
                       /\ python_lines[j].text = ImportNeededBy(python_lines[k].text)

\* The header that opens the block of a kind: the inline header without action.
BlockHeaderOf(kind) == IF kind = "if" THEN IfBlockText ELSE InlinePrefix(kind)

Deeper(ls) == [k \in 1..Len(ls) |-> OutputLine(1 + ls[k].indent_offset, ls[k].text)]

\* The lines of the block form: the header at the place of ln and the action
\* alone on the next line, one indentation unit deeper.
BlockForm(kind, action, ln, unit, stk, names) ==
    LET header == [content |-> BlockHeaderOf(kind), indent |-> ln.indent,
                   line_no |-> ln.line_no]
        body == [content |-> action, indent |-> ln.indent + unit,
                 line_no |-> ln.line_no + 1]
        both == <<header, body>>
    IN TranspileLine(header, both, 0, unit, stk, names).lines
           \o Deeper(TranspileLine(body, both, 1, unit, stk, names).lines)

\* The source line `line` has been dispatched and `result` is its result.
Dispatched == dispatches # <<>> /\ pc \notin {"start", "dispatch"}

\* C24: the lines an inline block "for each x in L do A", "while C do A" or
\* "if C then A" is translated to are the lines of the block form, the header
\* followed by the translation of A alone on the next deeper line, and the
\* inline line consumes one source line.
C24_InlineEqualsBlockForm ==
    \A kind \in InlineKinds : \A a \in ActionPhrases :
        (Dispatched /\ line.content = Inline(kind, a))
            => /\ result.lines = BlockForm(kind, a, line, indent_unit, stack, endpoint_names)
               /\ result.consumed = 1

\* C26: an inline conditional "if C then A", "if C then return V" included, is
\* translated to a header whose test is the translation of C alone, without the
\* word "then" or text of A, and a body that is the translation of the action.
C26_ThenIsNotInTheCondition ==
    \A a \in ActionPhrases :
        (Dispatched /\ line.content = Inline("if", a))
            => /\ result.lines # <<>>
               /\ result.lines[1] =
                      OutputLine(0, "if " \o ExpressionText(ParseCondition(<<"x">>)) \o ":")
               /\ SubSeq(result.lines, 2, Len(result.lines)) = Deeper(ParseInlineAction(a))

====
